---- MODULE Spec2Model ----
(***************************************************************************)
(* Synthetic OBB dataset generator of riftbound-scanner                    *)
(* (src/model/data_creator.py): card placement geometry, sample            *)
(* generation, mosaic composition and the dataset writer.                  *)
(*                                                                         *)
(* Number representation.  Pixel sizes and offsets are integers.  A        *)
(* rotation angle is a pair (c, s) with cos = c/ANGLE_DEN, sin =           *)
(* s/ANGLE_DEN and c*c + s*s = ANGLE_DEN^2, so that the rotation matrix is *)
(* exact.  Coordinates inside the rotated buffer are integers in units of  *)
(* 1/SUB pixel (SUB = 2*ANGLE_DEN); a normalized coordinate is an integer  *)
(* numerator over NORM = SUB*OUTPUT_SIZE.  Scales are hundredths,          *)
(* positions are in units of 1/(2*OUTPUT_SIZE) so that pos*OUTPUT_SIZE is  *)
(* a half-integer, exactly as the float computes it.                       *)
(***************************************************************************)
EXTENDS Integers, Sequences, FiniteSets, TLC

VARIABLES
    \* ---- one call of place_card_on_bg and the label made from it
    stage,      \* "idle" | "call" | "returned" | "labelled"
    call,       \* the arguments and the random draws of the call
    ret,        \* what the call returned: [path, box, painted]
    label,      \* the label line emitted from ret.box: [region, corners, line]
    \* ---- one run of main / create_dataset
    dpc,        \* where the run is
    env,        \* what the run finds on disk: [db_exists, present]
    card_paths, \* len(card_paths)
    train_set,  \* the indices assigned to train
    idx,        \* the loop variable i of create_dataset
    empty_count,
    sample,     \* the sample of the current iteration: [split, use_mosaic, mosaic, nlabels]
    disk,       \* [dirs, files, yaml]: directories made, files written, manifests written
    out,        \* what the run printed
    \* ---- two runs of the program side by side
    runs,       \* run -> [pc, np, py, train_set, labels, noise]
    \* ---- one call of generate_image
    gpc,        \* where the call is
    gin,        \* its inputs: [use_mosaic, cards, distractors]
    selected,   \* the cards of the sample still to place (indices into gin.cards)
    labels,     \* the label lines so far
    occupied,   \* the positions of the cards placed so far
    card_corners_for_shadows,
    attempts,   \* [requested, boxes]: cards selected, placements that returned a box
    center,     \* the mosaic's split point <<cx, cy>>
    quadrant,   \* how many mosaic regions are done
    ops,        \* the operations applied to the returned canvas, in order
    sub_ops,    \* the operations applied to the sub-scene of the quadrant being filled
    shadows,    \* the corners add_card_shadow was called with, in order
    exc,        \* the exception that left the call, or "none"
    tries,      \* per card of generate_image's loop: [readable, calls, box]
    \* ---- the global augmentations of one sample
    apc,        \* the function about to be called
    for_mosaic, \* whether the canvas is a mosaic
    applied,    \* the effects that changed the canvas, in order
    \* ---- the position loop of one _place_single_card call
    ppc,        \* "idle" | "loop" | "placing"
    pin,        \* [occupied, scale]
    tried,      \* the candidates drawn so far
    pxy,        \* <<px, py>>
    \* ---- one apply_cutout call
    cut_pc,     \* "idle" | "gate" | "patch" | "try" | "returned"
    cut_labels, \* the label lines: 8 coordinates each, in thousandths
    cut_left,   \* patches of the outer loop still to come
    cut_cur,    \* [size, tries] of the patch being placed
    cut_log,    \* per patch: [size, tries, at], at = << >> when skipped
    cut_painted, \* the squares _fill_cutout has filled: <<x, y, size>>
    \* ---- the assets one generate_image call reads
    lpc,        \* "idle" | "background" | "distractors" | "select" | "cards" | ...
    lin,        \* [textures, distractors, cards]: the files on disk
    lleft,      \* iterations of the distractor loop still to come
    lsel,       \* the selected cards still to come
    llog,       \* per asset read: [kind, readable, outcome]
    \* ---- create_dataset run again into the same dataset directory
    rr_pc,      \* "idle" | "start" | "loop" | "returned"
    rr_run,     \* "none" | "earlier" | "latest"
    rr_train_set, \* the run's train_set
    rr_i,       \* the run's loop index
    rr_empty_count, \* the run's empty_count
    rr_disk,    \* the files under DATASET_DIR: <<split, kind, i>>
    rr_written  \* the files the run in progress has written

placeVars == <<stage, call, ret, label>>
dataVars == <<dpc, env, card_paths, train_set, idx, empty_count, sample, disk, out>>
detVars == <<runs>>
genVars == <<gpc, gin, selected, labels, occupied, card_corners_for_shadows,
             attempts, center, quadrant, ops, sub_ops, shadows, exc, tries>>

vars == <<stage, call, ret, label,
          dpc, env, card_paths, train_set, idx, empty_count, sample, disk, out,
          runs,
          gpc, gin, selected, labels, occupied, card_corners_for_shadows,
          attempts, center, quadrant, ops, sub_ops, shadows, exc, tries,
          apc, for_mosaic, applied,
          ppc, pin, tried, pxy,
          cut_pc, cut_labels, cut_left, cut_cur, cut_log, cut_painted,
          lpc, lin, lleft, lsel, llog,
          rr_pc, rr_run, rr_train_set, rr_i, rr_empty_count, rr_disk, rr_written>>

augVars == <<apc, for_mosaic, applied>>
posVars == <<ppc, pin, tried, pxy>>
cutVars == <<cut_pc, cut_labels, cut_left, cut_cur, cut_log, cut_painted>>
loadVars == <<lpc, lin, lleft, lsel, llog>>
rerunVars == <<rr_pc, rr_run, rr_train_set, rr_i, rr_empty_count, rr_disk, rr_written>>

exceptPlace == <<dataVars, detVars, genVars, augVars, posVars, cutVars, loadVars, rerunVars>>
exceptData == <<placeVars, detVars, genVars, augVars, posVars, cutVars, loadVars, rerunVars>>
exceptDet == <<placeVars, dataVars, genVars, augVars, posVars, cutVars, loadVars, rerunVars>>
exceptGen == <<placeVars, dataVars, detVars, augVars, posVars, cutVars, loadVars, rerunVars>>
exceptAug == <<placeVars, dataVars, detVars, genVars, posVars, cutVars, loadVars, rerunVars>>
exceptPos == <<placeVars, dataVars, detVars, genVars, augVars, cutVars, loadVars, rerunVars>>
exceptCut == <<placeVars, dataVars, detVars, genVars, augVars, posVars, loadVars, rerunVars>>
exceptLoad == <<placeVars, dataVars, detVars, genVars, augVars, posVars, cutVars,
                rerunVars>>
exceptRerun == <<placeVars, dataVars, detVars, genVars, augVars, posVars, cutVars,
                 loadVars>>

----------------------------------------------------------------------------
(* Configuration, data_creator.py:24-51 *)

IMAGES_PER_CARD == 150
OUTPUT_SIZE == 640
MAX_CARDS_PER_IMAGE == 5
(* TRAIN_RATIO = 0.85, in hundredths *)
TRAIN_RATIO == 85
MIN_CARD_PX == 10
MIN_INSIDE == 3
ANGLE_DEN == 5 * 13
SUB == 2 * ANGLE_DEN
NORM == SUB * OUTPUT_SIZE
MICRO == 1000 * 1000

----------------------------------------------------------------------------
(* Arithmetic helpers *)

Abs(x) == IF x < 0 THEN -x ELSE x
Min(a, b) == IF a < b THEN a ELSE b
Max(a, b) == IF a > b THEN a ELSE b

Quad(P(_)) == << P(1), P(2), P(3), P(4) >>

(* Python's int() of the float n/d (d > 0): truncation toward zero. *)
PyInt(n, d) == IF n >= 0 THEN n \div d ELSE -((-n) \div d)

(* n * 10^k mod d and floor(n * 10^k / d), digit by digit (n >= 0, d > 0). *)
RECURSIVE DecRem(_, _, _)
DecRem(n, d, k) == IF k = 0 THEN n % d ELSE (10 * DecRem(n, d, k - 1)) % d

RECURSIVE DecQuot(_, _, _)
DecQuot(n, d, k) ==
    IF k = 0 THEN n \div d
    ELSE 10 * DecQuot(n, d, k - 1) + (10 * DecRem(n, d, k - 1)) \div d

(* f"{x:.6f}" of x = n/d in [0, 1]: the value in millionths, rounded. *)
Format6(n, d) ==
    DecQuot(n, d, 6) + (IF 2 * DecRem(n, d, 6) >= d THEN 1 ELSE 0)

----------------------------------------------------------------------------
(* apply_perspective, data_creator.py:416-446 *)

(* max_offset = int(min(w, h) * 0.10) *)
MaxOffset(w, h) == Min(w, h) \div 10

(* The eight random.randint(0, max_offset) draws, in evaluation order.  A  *)
(* draw is given as a step k in 0..PERSP_STEPS, standing for the offset    *)
(* k * max_offset / PERSP_STEPS.                                           *)
PERSP_STEPS == 2
PerspOffsets(w, h, offs) ==
    LET O(j) == (offs[j] * MaxOffset(w, h)) \div PERSP_STEPS
    IN  << O(1), O(2), O(3), O(4), O(5), O(6), O(7), O(8) >>

SrcPts(w, h) == << <<0, 0>>, <<w, 0>>, <<w, h>>, <<0, h>> >>

(* the offsets taken away from the card instead of into it *)
DstPts_Outward(w, h, o) ==
    << <<-o[1], -o[2]>>, <<w + o[3], -o[4]>>,
       <<w + o[5], h + o[6]>>, <<-o[7], h + o[8]>> >>

(* dst_pts, lines 432-437 *)
DstPts(w, h, o) ==
    << <<o[1], o[2]>>, <<w - o[3], o[4]>>,
       <<w - o[5], h - o[6]>>, <<o[7], h - o[8]>> >>

(* cv2.getPerspectiveTransform(src_pts, dst_pts) for the rectangle src_pts: *)
(* the projective map taking (0,0),(w,0),(w,h),(0,h) to q[1..4], as the     *)
(* integer matrix of the map on (x/w, y/h); cv2 returns the same map scaled *)
(* to M[2][2] = 1.                                                          *)
GetPerspectiveTransform(q) ==
    LET x0 == q[1][1]  y0 == q[1][2]
        x1 == q[2][1]  y1 == q[2][2]
        x2 == q[3][1]  y2 == q[3][2]
        x3 == q[4][1]  y3 == q[4][2]
        dx1 == x1 - x2  dx2 == x3 - x2  sx == x0 - x1 + x2 - x3
        dy1 == y1 - y2  dy2 == y3 - y2  sy == y0 - y1 + y2 - y3
        den == dx1 * dy2 - dx2 * dy1
        g == sx * dy2 - dx2 * sy
        h == dx1 * sy - sx * dy1
    IN  [a |-> den * (x1 - x0) + g * x1, b |-> den * (x3 - x0) + h * x3, c |-> den * x0,
         d |-> den * (y1 - y0) + g * y1, e |-> den * (y3 - y0) + h * y3, f |-> den * y0,
         g |-> g, h |-> h, i |-> den]

ExactDiv(n, d) == IF d < 0 THEN (-n) \div (-d) ELSE n \div d

(* persp_matrix @ [x, y, 1] followed by the division by the third           *)
(* coordinate (lines 906-909), for a point of the w x h buffer whose        *)
(* x/w and y/h are integers (the four logical corners).                    *)
PerspectivePoint(M, w, h, pt) ==
    LET u == pt[1] \div w
        v == pt[2] \div h
        hw == M.g * u + M.h * v + M.i
    IN  << ExactDiv(M.a * u + M.b * v + M.c, hw),
           ExactDiv(M.d * u + M.e * v + M.f, hw) >>

----------------------------------------------------------------------------
(* place_card_on_bg, data_creator.py:838-984 *)

(* new_h = int(h_bg * scale), new_w = int(new_h * card_w / card_h) *)
ScaledH(in) == PyInt(OUTPUT_SIZE * in.scale, 100)
ScaledW(in) == PyInt(ScaledH(in) * in.card_w, in.card_h)

(* only the height is compared with the threshold *)
TooSmall_HeightOnly(in) == ScaledH(in) < MIN_CARD_PX

TooSmall(in) == ScaledW(in) < MIN_CARD_PX \/ ScaledH(in) < MIN_CARD_PX

(* persp_matrix: <<>> stands for None *)
PerspMatrix(in) ==
    IF in.persp
    THEN GetPerspectiveTransform(
             DstPts(ScaledW(in), ScaledH(in),
                    PerspOffsets(ScaledW(in), ScaledH(in), in.offs)))
    ELSE <<>>

(* corners after the optional perspective step (lines 896-909) *)
PerspCorners(in) ==
    LET cw == ScaledW(in)
        ch == ScaledH(in)
        M == PerspMatrix(in)
        src == SrcPts(cw, ch)
        P(k) == PerspectivePoint(M, cw, ch, src[k])
    IN  IF in.persp THEN Quad(P) ELSE src

NegAngle(a) == [c |-> a.c, s |-> -a.s]

(* cv2.getRotationMatrix2D((cw/2, ch/2), angle, 1.0): alpha = cos, beta =   *)
(* sin of the given angle; [[alpha, beta, (1-alpha)cx - beta cy],          *)
(* [-beta, alpha, beta cx + (1-alpha) cy]].  m.. over ANGLE_DEN, t.. over  *)
(* SUB.                                                                    *)
GetRotationMatrix2D(cw, ch, a) ==
    [m00 |-> a.c, m01 |-> a.s, t0 |-> (ANGLE_DEN - a.c) * cw - a.s * ch,
     m10 |-> -a.s, m11 |-> a.c, t1 |-> a.s * cw + (ANGLE_DEN - a.c) * ch]

(* new_bw = int(cw*cos_a + ch*sin_a), new_bh = int(cw*sin_a + ch*cos_a) *)
NewBW(cw, ch, M) == (cw * Abs(M.m00) + ch * Abs(M.m01)) \div ANGLE_DEN
NewBH(cw, ch, M) == (cw * Abs(M.m01) + ch * Abs(M.m00)) \div ANGLE_DEN

(* rot_matrix after "Adjust translation" (lines 912-922): the pixel         *)
(* rotation is called with -angle_deg.                                     *)
RotMatrix(in) ==
    LET cw == ScaledW(in)
        ch == ScaledH(in)
        M == GetRotationMatrix2D(cw, ch, NegAngle(in.angle))
    IN  [M EXCEPT !.t0 = @ + ANGLE_DEN * (NewBW(cw, ch, M) - cw),
                  !.t1 = @ + ANGLE_DEN * (NewBH(cw, ch, M) - ch)]

RotatedW(in) == NewBW(ScaledW(in), ScaledH(in), RotMatrix(in))
RotatedH(in) == NewBH(ScaledW(in), ScaledH(in), RotMatrix(in))

(* M applied to a pixel point, in 1/SUB pixel *)
AffinePoint(M, pt) ==
    << 2 * M.m00 * pt[1] + 2 * M.m01 * pt[2] + M.t0,
       2 * M.m10 * pt[1] + 2 * M.m11 * pt[2] + M.t1 >>

MatrixOf(M) == << M.m00, M.m01, M.t0, M.m10, M.m11, M.t1 >>
HomographyOf(M) == << M.a, M.b, M.c, M.d, M.e, M.f, M.g, M.h, M.i >>

(* The transforms applied to the card's pixel buffer, in order: cv2.flip    *)
(* (line 880), cv2.warpPerspective inside apply_perspective (lines 441-445, *)
(* called at line 890), cv2.warpAffine (lines 924-929).                    *)
PixelTransforms(in) ==
    (IF in.flip THEN << <<"flip">> >> ELSE <<>>)
    \o (IF in.persp
        THEN << <<"perspective">> \o HomographyOf(PerspMatrix(in)) >>
        ELSE <<>>)
    \o << <<"affine">> \o MatrixOf(RotMatrix(in)) >>

(* Where the pixel transforms take the outline of the scaled buffer: flip   *)
(* mirrors x, warpPerspective and warpAffine move the content at p to M p. *)
PixelOutline(in) ==
    LET cw == ScaledW(in)
        ch == ScaledH(in)
        src == SrcPts(cw, ch)
        H == PerspMatrix(in)
        M == RotMatrix(in)
        outline == { src[k] : k \in 1..4 }
        flipped == IF in.flip
                   THEN { << cw - p[1], p[2] >> : p \in outline }
                   ELSE outline
        warped == IF in.persp
                  THEN { PerspectivePoint(H, cw, ch, p) : p \in flipped }
                  ELSE flipped
    IN  { AffinePoint(M, p) : p \in warped }

(* rot_matrix with the sign of the angle not reversed *)
CornerRotMatrix_SameSign(in) ==
    LET cw == ScaledW(in)
        ch == ScaledH(in)
        M == GetRotationMatrix2D(cw, ch, in.angle)
    IN  [M EXCEPT !.t0 = @ + ANGLE_DEN * (NewBW(cw, ch, M) - cw),
                  !.t1 = @ + ANGLE_DEN * (NewBH(cw, ch, M) - ch)]

(* the matrix the corner loop uses (lines 932-936) *)
CornerRotMatrix(in) == RotMatrix(in)

(* The transforms applied to the four logical corners, in order: the        *)
(* homogeneous product with persp_matrix (lines 905-909), the affine        *)
(* product with rot_matrix (lines 933-936).                                *)
CornerTransforms(in) ==
    (IF in.persp
     THEN << <<"perspective">> \o HomographyOf(PerspMatrix(in)) >>
     ELSE <<>>)
    \o << <<"affine">> \o MatrixOf(CornerRotMatrix(in)) >>

(* rotated_corners (lines 932-936) *)
RotatedCorners(in) ==
    LET M == CornerRotMatrix(in)
        corners == PerspCorners(in)
        P(k) == AffinePoint(M, corners[k])
    IN  Quad(P)

(* off_x = int(pos_x * w_bg - new_bw / 2), off_y alike (lines 939-940) *)
OffX(in) == PyInt(in.pos_x - RotatedW(in), 2)
OffY(in) == PyInt(in.pos_y - RotatedH(in), 2)

(* "Check if card fits (at least partially)", line 943 *)
NoOverlap(in) ==
    LET off_x == OffX(in)
        off_y == OffY(in)
    IN  \/ off_x + RotatedW(in) < 0
        \/ off_y + RotatedH(in) < 0
        \/ off_x >= OUTPUT_SIZE
        \/ off_y >= OUTPUT_SIZE

(* the source rectangle clipped at the canvas's left and top only *)
SrcRect_Unclipped(in) ==
    << Max(0, -OffX(in)), Max(0, -OffY(in)), RotatedW(in), RotatedH(in) >>

(* clipped source and destination rectangles <<x1, y1, x2, y2>> (947-955) *)
SrcRect(in) ==
    LET off_x == OffX(in)
        off_y == OffY(in)
    IN  << Max(0, -off_x), Max(0, -off_y),
           Min(RotatedW(in), OUTPUT_SIZE - off_x),
           Min(RotatedH(in), OUTPUT_SIZE - off_y) >>

DstRect(in) ==
    LET s == SrcRect(in)
        dx1 == Max(0, OffX(in))
        dy1 == Max(0, OffY(in))
    IN  << dx1, dy1, dx1 + (s[3] - s[1]), dy1 + (s[4] - s[2]) >>

(* a region of zero width or height is taken as non-empty *)
EmptyRegion_Strict(in) ==
    LET s == SrcRect(in) IN s[3] < s[1] \/ s[4] < s[2]

(* card_region.size == 0 (line 959) *)
EmptyRegion(in) ==
    LET s == SrcRect(in) IN s[3] <= s[1] \/ s[4] <= s[2]

(* final_corners before the clamp (lines 970-974), numerators over NORM *)
FinalCorners(in) ==
    LET rc == RotatedCorners(in)
        off_x == OffX(in)
        off_y == OffY(in)
        P(k) == << rc[k][1] + SUB * off_x, rc[k][2] + SUB * off_y >>
    IN  Quad(P)

(* a corner counted as inside whenever it is not beyond 1 *)
InsideUnit_UpperOnly(p) == p[1] <= NORM /\ p[2] <= NORM

(* 0 <= fx <= 1 and 0 <= fy <= 1, line 977 *)
InsideUnit(p) == 0 <= p[1] /\ p[1] <= NORM /\ 0 <= p[2] /\ p[2] <= NORM

(* inside = sum(1 for fx, fy in final_corners if 0 <= fx <= 1 and ...) *)
Inside(c) == Cardinality({k \in 1..4 : InsideUnit(c[k])})

Clamp01(x) == Max(0, Min(NORM, x))

(* the corners returned as computed, without the clamp *)
ClampCorners_Skipped(c) == c

(* "Clamp corners to valid range", line 982 *)
ClampCorners(c) ==
    LET P(k) == << Clamp01(c[k][1]), Clamp01(c[k][2]) >>
    IN  Quad(P)

(* The whole function.  box = <<>> stands for None; painted is the canvas   *)
(* rectangle the alpha blend wrote (line 967), <<>> when the canvas is     *)
(* returned as it was received.                                            *)
place_card_on_bg(in) ==
    IF TooSmall(in)
    THEN [path |-> "too_small", box |-> <<>>, painted |-> <<>>]
    ELSE IF NoOverlap(in)
    THEN [path |-> "no_overlap", box |-> <<>>, painted |-> <<>>]
    ELSE IF EmptyRegion(in)
    THEN [path |-> "empty_region", box |-> <<>>, painted |-> <<>>]
    ELSE LET final_corners == FinalCorners(in)
         IN  IF Inside(final_corners) < MIN_INSIDE
             THEN [path |-> "outside", box |-> <<>>, painted |-> DstRect(in)]
             ELSE [path |-> "placed", box |-> ClampCorners(final_corners),
                   painted |-> DstRect(in)]

----------------------------------------------------------------------------
(* Label lines: generate_image lines 1074-1076, _fill_mosaic_quadrant      *)
(* lines 1139-1145.  A line is <<class id, x1, y1, ..., x4, y4>> with the   *)
(* coordinates as printed by "%.6f", in millionths.                        *)

CLASS_ID == 0

LabelLine(box) ==
    << CLASS_ID,
       Format6(box[1][1], NORM), Format6(box[1][2], NORM),
       Format6(box[2][1], NORM), Format6(box[2][2], NORM),
       Format6(box[3][1], NORM), Format6(box[3][2], NORM),
       Format6(box[4][1], NORM), Format6(box[4][2], NORM) >>

(* The four quadrants of generate_mosaic_image (lines 1172-1177) around the *)
(* split point (cx, cy), each <<x1, y1, x2, y2>>.                           *)
Regions(cx, cy) ==
    << <<0, 0, cx, cy>>, <<cx, 0, OUTPUT_SIZE, cy>>,
       <<0, cy, cx, OUTPUT_SIZE>>, <<cx, cy, OUTPUT_SIZE, OUTPUT_SIZE>> >>

(* (x1 + c*rw) / mosaic_size for c = n/NORM, clamped to [0, 1]: numerator   *)
(* over NORM * OUTPUT_SIZE.                                                *)
MosaicCoord(lo, extent, n) ==
    Max(0, Min(NORM * OUTPUT_SIZE, lo * NORM + n * extent))

(* the remap without the quadrant's scale: (x1 + c * mosaic_size) / mosaic_size *)
MosaicTransform_Unscaled(region, box) ==
    LET P(k) == << MosaicCoord(region[1], OUTPUT_SIZE, box[k][1]),
                   MosaicCoord(region[2], OUTPUT_SIZE, box[k][2]) >>
    IN  Quad(P)

(* transformed (lines 1139-1143) *)
MosaicTransform(region, box) ==
    LET rw == region[3] - region[1]
        rh == region[4] - region[2]
        P(k) == << MosaicCoord(region[1], rw, box[k][1]),
                   MosaicCoord(region[2], rh, box[k][2]) >>
    IN  Quad(P)

MosaicLabelLine(t) ==
    << CLASS_ID,
       Format6(t[1][1], NORM * OUTPUT_SIZE), Format6(t[1][2], NORM * OUTPUT_SIZE),
       Format6(t[2][1], NORM * OUTPUT_SIZE), Format6(t[2][2], NORM * OUTPUT_SIZE),
       Format6(t[3][1], NORM * OUTPUT_SIZE), Format6(t[3][2], NORM * OUTPUT_SIZE),
       Format6(t[4][1], NORM * OUTPUT_SIZE), Format6(t[4][2], NORM * OUTPUT_SIZE) >>

----------------------------------------------------------------------------
(* Inputs of one place_card_on_bg call *)

(* angle_deg as (cos, sin) * ANGLE_DEN, within ROTATION_RANGE = (-75, 75):  *)
(* 0, +-22.6, +-36.9, +-53.1, +-67.4 degrees                                *)
Angles ==
    { [c |-> 65, s |-> 0],
      [c |-> 60, s |-> 25], [c |-> 60, s |-> -25],
      [c |-> 52, s |-> 39], [c |-> 52, s |-> -39],
      [c |-> 39, s |-> 52], [c |-> 39, s |-> -52],
      [c |-> 25, s |-> 60], [c |-> 25, s |-> -60] }

(* card image sizes <<card_w, card_h>>: portrait, landscape, a thin strip *)
CardDims == { <<744, 1039>>, <<1039, 744>>, <<60, 1200>> }

(* scale in hundredths: CARD_SCALE_MIN..CARD_SCALE_MAX (0.12..0.60), the    *)
(* mosaic's 0.25..0.65, and 0.01 below any caller's range                  *)
Scales == { 1, 12, 30, 50, 65 }

(* pos_x, pos_y in 1/(2*OUTPUT_SIZE): -0.5, 0.05, 0.5, 0.8, 1.25, and     *)
(* -229/1280, which puts the right (bottom) edge of a 229-wide (-high)     *)
(* buffer on the canvas's left (top) edge                                  *)
Positions == { -640, -229, 64, 640, 1024, 1600 }

(* the eight offset draws of apply_perspective, as steps 0..PERSP_STEPS *)
PerspDraws ==
    { << 0, 0, 0, 0, 0, 0, 0, 0 >>,
      << PERSP_STEPS, PERSP_STEPS, PERSP_STEPS, PERSP_STEPS,
         PERSP_STEPS, PERSP_STEPS, PERSP_STEPS, PERSP_STEPS >>,
      << PERSP_STEPS, 0, 1, PERSP_STEPS, 0, 1, PERSP_STEPS, 0 >> }

NoDraws == << 0, 0, 0, 0, 0, 0, 0, 0 >>

PlaceCalls ==
    { [card_w |-> d[1], card_h |-> d[2], angle |-> a, scale |-> sc,
       pos_x |-> px, pos_y |-> py, flip |-> fl, persp |-> pp, offs |-> o] :
      d \in CardDims, a \in Angles, sc \in Scales,
      px \in Positions, py \in Positions, fl \in BOOLEAN,
      pp \in BOOLEAN, o \in PerspDraws }

(* random.random() < PERSPECTIVE_PROB false: apply_perspective is not       *)
(* called and draws nothing                                                *)
ValidCall(in) == in.persp \/ in.offs = NoDraws

(* the split point drawn from 20 pixels off the edge *)
SplitPoints_NearEdge == { 20, (3 * OUTPUT_SIZE) \div 4 }

(* cx, cy = random.randint(size // 4, 3 * size // 4) *)
SplitPoints == { OUTPUT_SIZE \div 4, (3 * OUTPUT_SIZE) \div 4 }

NoRet == [path |-> "none", box |-> <<>>, painted |-> <<>>]
NoLabel == [region |-> <<>>, corners |-> <<>>, line |-> <<>>]
NoCall == [card_w |-> 1, card_h |-> 1, angle |-> [c |-> 65, s |-> 0], scale |-> 0,
           pos_x |-> 0, pos_y |-> 0, flip |-> FALSE, persp |-> FALSE,
           offs |-> NoDraws]

PlaceIdle ==
    stage = "idle" /\ call = NoCall /\ ret = NoRet /\ label = NoLabel

DetIdle == runs = << >>

NoAttempts == [requested |-> 0, boxes |-> 0]

NoInput == [use_mosaic |-> FALSE, cards |-> << >>, distractors |-> << >>]

GenIdle ==
    /\ gpc = "idle"
    /\ gin = NoInput
    /\ selected = << >>
    /\ labels = << >>
    /\ occupied = << >>
    /\ card_corners_for_shadows = << >>
    /\ attempts = NoAttempts
    /\ center = << >>
    /\ quadrant = 0
    /\ ops = << >>
    /\ sub_ops = << >>
    /\ shadows = << >>
    /\ exc = "none"
    /\ tries = << >>

AugIdle == apc = "idle" /\ for_mosaic = FALSE /\ applied = << >>

NoPosInput == [occupied |-> << >>, scale |-> 0]

PosIdle == ppc = "idle" /\ pin = NoPosInput /\ tried = << >> /\ pxy = << >>

NoPatch == [size |-> 0, tries |-> 0]

CutIdle ==
    /\ cut_pc = "idle"
    /\ cut_labels = << >>
    /\ cut_left = 0
    /\ cut_cur = NoPatch
    /\ cut_log = << >>
    /\ cut_painted = << >>

NoFiles == [textures |-> << >>, distractors |-> << >>, cards |-> << >>]

LoadIdle ==
    /\ lpc = "idle"
    /\ lin = NoFiles
    /\ lleft = 0
    /\ lsel = << >>
    /\ llog = << >>

RerunIdle ==
    /\ rr_pc = "idle"
    /\ rr_run = "none"
    /\ rr_train_set = {}
    /\ rr_i = 0
    /\ rr_empty_count = 0
    /\ rr_disk = {}
    /\ rr_written = {}

----------------------------------------------------------------------------
(* main and create_dataset, data_creator.py:1196-1289 *)

(* total_images = len(card_paths) * IMAGES_PER_CARD // MAX_CARDS_PER_IMAGE *)
TotalImages(n) == (n * IMAGES_PER_CARD) \div MAX_CARDS_PER_IMAGE

(* train_count = int(total_images * TRAIN_RATIO) *)
TrainCount(total) == PyInt(total * TRAIN_RATIO, 100)

(* random.shuffle(indices): the outcome is one of the permutations          *)
(* j -> (k + j * SHUFFLE_STRIDE) mod total, k in 0..MaxShuffle; the stride  *)
(* is coprime to every total of the model.                                 *)
MaxShuffle == 1
SHUFFLE_STRIDE == 7
Shuffled(total, k) == [j \in 1..total |-> (k + (j - 1) * SHUFFLE_STRIDE) % total]

(* a partition that puts every index into train *)
TrainSetOf_All(indices, train_count) == { indices[j] : j \in 1..Len(indices) }

(* train_set = set(indices[:train_count]), line 1220 *)
TrainSetOf(indices, train_count) == { indices[j] : j \in 1..train_count }

(* split = "train" if i in train_set else "val", line 1225 *)
SplitOf(i, ts) == IF i \in ts THEN "train" ELSE "val"

(* mosaic generation allowed for every sample *)
UseMosaic_Always(split) == TRUE

(* use_mosaic = split == "train", line 1228 *)
UseMosaic(split) == split = "train"

(* len(card_paths): how many of the catalog's rows have their image file *)
CardCounts == {0, 1}
(* a run is followed for at most MaxEmpty samples without a box, and a      *)
(* sample carries at most MaxLabels boxes                                  *)
MaxEmpty == 1
MaxLabels == 1

Envs == [db_exists : BOOLEAN, present : CardCounts]

NoSample == [split |-> "none", use_mosaic |-> FALSE, mosaic |-> FALSE, nlabels |-> 0]
NoDisk == [dirs |-> {}, files |-> {}, yaml |-> 0]

(* The (image, labels) pairs generate_image can return, as [mosaic,        *)
(* nlabels]: it delegates to generate_mosaic_image only when use_mosaic    *)
(* (lines 1048-1049); any number of placements may fail.                   *)
GenerateImageReturns(use_mosaic) ==
    [mosaic : IF use_mosaic THEN BOOLEAN ELSE {FALSE}, nlabels : 0..MaxLabels]

ImagePath(split, i) == << split, "images", i >>

(* the label file written under train/ whatever the split *)
LabelPath_AlwaysTrain(split, i) == << "train", "labels", i >>

LabelPath(split, i) == << split, "labels", i >>

DataIdle ==
    /\ dpc = "idle"
    /\ env = [db_exists |-> FALSE, present |-> 0]
    /\ card_paths = 0
    /\ train_set = {}
    /\ idx = 0
    /\ empty_count = 0
    /\ sample = NoSample
    /\ disk = NoDisk
    /\ out = <<>>

InitData ==
    /\ dpc = "main"
    /\ env \in Envs
    /\ card_paths = 0
    /\ train_set = {}
    /\ idx = 0
    /\ empty_count = 0
    /\ sample = NoSample
    /\ disk = NoDisk
    /\ out = <<>>
    /\ PlaceIdle
    /\ DetIdle
    /\ GenIdle
    /\ AugIdle
    /\ PosIdle
    /\ CutIdle
    /\ LoadIdle
    /\ RerunIdle

(* main, lines 1269-1271: the database file is missing *)
MainNoDatabase ==
    /\ dpc = "main"
    /\ ~env.db_exists
    /\ out' = Append(out, <<"ERROR: riftbound.db not found">>)
    /\ dpc' = "returned"
    /\ UNCHANGED <<env, card_paths, train_set, idx, empty_count, sample, disk>>
    /\ UNCHANGED exceptData

(* the empty catalog reported, and create_dataset entered all the same *)
MainNoCards_FallsThrough ==
    /\ dpc = "main"
    /\ env.db_exists
    /\ env.present = 0
    /\ card_paths' = env.present
    /\ out' = Append(out, <<"ERROR: No card images found">>)
    /\ disk' = [disk EXCEPT !.dirs = { <<sp, kind>> :
                                    sp \in {"train", "val"},
                                    kind \in {"images", "labels"} }]
    /\ dpc' = "loop"
    /\ UNCHANGED <<env, train_set, idx, empty_count, sample>>
    /\ UNCHANGED exceptData

(* main, lines 1273-1276, with load_card_paths_from_db (lines 64-73): the   *)
(* rows whose file exists; none of them                                    *)
MainNoCards ==
    /\ dpc = "main"
    /\ env.db_exists
    /\ env.present = 0
    /\ card_paths' = env.present
    /\ out' = Append(out, <<"ERROR: No card images found">>)
    /\ dpc' = "returned"
    /\ UNCHANGED <<env, train_set, idx, empty_count, sample, disk>>
    /\ UNCHANGED exceptData

(* main, lines 1273-1288, and create_dataset up to its loop (lines          *)
(* 1206-1222): the folders, the shuffled partition                         *)
CreateDataset ==
    /\ dpc = "main"
    /\ env.db_exists
    /\ env.present > 0
    /\ card_paths' = env.present
    /\ \E k \in 0..MaxShuffle :
          LET total == TotalImages(env.present)
          IN  train_set' = TrainSetOf(Shuffled(total, k), TrainCount(total))
    /\ disk' = [disk EXCEPT !.dirs = @ \cup { <<sp, kind>> :
                                    sp \in {"train", "val"},
                                    kind \in {"images", "labels"} }]
    /\ out' = Append(out, <<"Cards available", env.present>>)
    /\ idx' = 0
    /\ empty_count' = 0
    /\ dpc' = "loop"
    /\ UNCHANGED <<env, sample>>
    /\ UNCHANGED exceptData

(* lines 1224-1230: the next index, its split, generate_image returning *)
GenerateSample ==
    /\ dpc = "loop"
    /\ idx < TotalImages(card_paths)
    /\ LET split == SplitOf(idx, train_set)
           use_mosaic == UseMosaic(split)
       IN  \E g \in GenerateImageReturns(use_mosaic) :
              /\ (g.nlabels = 0) => empty_count < MaxEmpty
              /\ sample' = [split |-> split, use_mosaic |-> use_mosaic,
                            mosaic |-> g.mosaic, nlabels |-> g.nlabels]
    /\ dpc' = "generated"
    /\ UNCHANGED <<env, card_paths, train_set, idx, empty_count, disk, out>>
    /\ UNCHANGED exceptData

(* line 1230: generate_image raises (add_distractor_objects, line 806, on  *)
(* a distractor wider than the canvas); the exception ends the run         *)
GenerateRaises ==
    /\ dpc = "loop"
    /\ idx < TotalImages(card_paths)
    /\ dpc' = "raised"
    /\ UNCHANGED <<env, card_paths, train_set, idx, empty_count, sample, disk, out>>
    /\ UNCHANGED exceptData

(* lines 1232-1234: no labels, the sample is skipped *)
SkipEmpty ==
    /\ dpc = "generated"
    /\ sample.nlabels = 0
    /\ empty_count' = empty_count + 1
    /\ idx' = idx + 1
    /\ sample' = NoSample
    /\ dpc' = "loop"
    /\ UNCHANGED <<env, card_paths, train_set, disk, out>>
    /\ UNCHANGED exceptData

(* lines 1236-1240: cv2.imwrite(img_path, ...) *)
WriteImage ==
    /\ dpc = "generated"
    /\ sample.nlabels > 0
    /\ disk' = [disk EXCEPT !.files = @ \cup {ImagePath(sample.split, idx)}]
    /\ dpc' = "image_written"
    /\ UNCHANGED <<env, card_paths, train_set, idx, empty_count, sample, out>>
    /\ UNCHANGED exceptData

(* lines 1238-1242: the label file, and the end of the iteration *)
WriteLabels ==
    /\ dpc = "image_written"
    /\ disk' = [disk EXCEPT !.files = @ \cup {LabelPath(sample.split, idx)}]
    /\ idx' = idx + 1
    /\ sample' = NoSample
    /\ dpc' = "loop"
    /\ UNCHANGED <<env, card_paths, train_set, empty_count, out>>
    /\ UNCHANGED exceptData

(* lines 1244-1259, and main's last line: the warning, data.yaml *)
WriteManifest ==
    /\ dpc = "loop"
    /\ idx = TotalImages(card_paths)
    /\ out' = (IF empty_count > 0
               THEN Append(out, <<"images skipped (no valid labels)", empty_count>>)
               ELSE out) \o << <<"Dataset saved">>, <<"Generation complete!">> >>
    /\ disk' = [disk EXCEPT !.yaml = @ + 1]
    /\ dpc' = "returned"
    /\ UNCHANGED <<env, card_paths, train_set, idx, empty_count, sample>>
    /\ UNCHANGED exceptData

NextData ==
    \/ MainNoDatabase
    \/ MainNoCards
    \/ CreateDataset
    \/ GenerateSample
    \/ GenerateRaises
    \/ SkipEmpty
    \/ WriteImage
    \/ WriteLabels
    \/ WriteManifest

SpecData == InitData /\ [][NextData]_vars

----------------------------------------------------------------------------
(* SpecPlace: place_card_on_bg applied to every input, and the label line  *)
(* its callers make of the box.                                            *)

InitPlace ==
    /\ stage = "call"
    /\ call \in { in \in PlaceCalls : ValidCall(in) }
    /\ ret = NoRet
    /\ label = NoLabel
    /\ DataIdle
    /\ DetIdle
    /\ GenIdle
    /\ AugIdle
    /\ PosIdle
    /\ CutIdle
    /\ LoadIdle
    /\ RerunIdle

PlaceCard ==
    /\ stage = "call"
    /\ ret' = place_card_on_bg(call)
    /\ stage' = "returned"
    /\ UNCHANGED <<call, label>>
    /\ UNCHANGED exceptPlace

(* generate_image, lines 1068-1076 *)
EmitLabel ==
    /\ stage = "returned"
    /\ ret.box # <<>>
    /\ label' = [region |-> <<>>, corners |-> ret.box, line |-> LabelLine(ret.box)]
    /\ stage' = "labelled"
    /\ UNCHANGED <<call, ret>>
    /\ UNCHANGED exceptPlace

(* _fill_mosaic_quadrant, lines 1136-1145, for a quadrant of               *)
(* generate_mosaic_image                                                   *)
EmitMosaicLabel ==
    /\ stage = "returned"
    /\ ret.box # <<>>
    /\ \E cx \in SplitPoints, cy \in SplitPoints, r \in 1..4 :
          LET region == Regions(cx, cy)[r]
              t == MosaicTransform(region, ret.box)
          IN  label' = [region |-> region, corners |-> t,
                        line |-> MosaicLabelLine(t)]
    /\ stage' = "labelled"
    /\ UNCHANGED <<call, ret>>
    /\ UNCHANGED exceptPlace

NextPlace == PlaceCard \/ EmitLabel \/ EmitMosaicLabel

SpecPlace == InitPlace /\ [][NextPlace]_vars

----------------------------------------------------------------------------
(* Claims checked under SpecPlace *)

Returned == stage \in {"returned", "labelled"}

(* C1: every box place_card_on_bg returns, and every label line made of    *)
(* it, has its 8 coordinates in [0, 1]; a box is returned only if at least *)
(* 3 of the 4 corners were inside the unit square before the clamp, and    *)
(* with fewer than 3 inside the result is None.                            *)
C1_BoxNormalized ==
    /\ (stage = "returned" /\ ret.box # <<>>) =>
          /\ \A k \in 1..4 : \A j \in 1..2 :
                0 <= ret.box[k][j] /\ ret.box[k][j] <= NORM
          /\ Inside(FinalCorners(call)) >= 3
    /\ (stage = "returned" /\ ret.path \in {"placed", "outside"}
            /\ Inside(FinalCorners(call)) < 3) => ret.box = <<>>
    /\ (stage = "labelled") =>
          \A j \in 2..9 : 0 <= label.line[j] /\ label.line[j] <= MICRO

(* a box was returned with exactly 3 corners inside, so the clamp moved    *)
(* the fourth, and its label line was emitted                              *)
C1_Witness ==
    /\ stage = "labelled"
    /\ ret.path = "placed"
    /\ Inside(FinalCorners(call)) = 3
    /\ ret.box # FinalCorners(call)

(* C2: the perspective and rotation transforms applied to the pixel buffer *)
(* are the ones applied to the four logical corners, same matrices, same   *)
(* order, and the corners are where the buffer's outline lands.            *)
C2_CornersFollowPixels ==
    (stage = "returned" /\ ret.path # "too_small") =>
        /\ SelectSeq(PixelTransforms(call), LAMBDA t : t[1] # "flip")
              = CornerTransforms(call)
        /\ { RotatedCorners(call)[k] : k \in 1..4 } = PixelOutline(call)

(* a flipped, perspective-warped card rotated by a non-zero angle was      *)
(* placed                                                                  *)
C2_Witness ==
    /\ Returned
    /\ ret.path = "placed"
    /\ call.flip /\ call.persp /\ call.offs # NoDraws
    /\ call.angle.s # 0

(* C5: every corner remapped into a mosaic quadrant lies inside that       *)
(* quadrant's region of the full canvas.                                   *)
C5_MosaicRemapInsideQuadrant ==
    (stage = "labelled" /\ label.region # <<>>) =>
        \A k \in 1..4 :
            /\ label.region[1] * NORM <= label.corners[k][1]
            /\ label.corners[k][1] <= label.region[3] * NORM
            /\ label.region[2] * NORM <= label.corners[k][2]
            /\ label.corners[k][2] <= label.region[4] * NORM

(* a box with a corner clamped to the sub-scene's edge was remapped into   *)
(* the bottom-right quadrant                                               *)
C5_Witness ==
    /\ stage = "labelled"
    /\ label.region # <<>>
    /\ label.region[1] > 0 /\ label.region[2] > 0
    /\ ret.box # FinalCorners(call)

(* C11: a card whose center is (0.05, 0.05) at scale 0.5 is rejected for   *)
(* every angle, with or without flip and perspective: at most 2 of its 4   *)
(* corners are inside the canvas, and the result is None.                  *)
C11_CornerPlacementRejected ==
    (stage = "returned" /\ call.pos_x = 64 /\ call.pos_y = 64 /\ call.scale = 50) =>
        /\ ret.path = "outside"
        /\ Inside(FinalCorners(call)) <= 2
        /\ ret.box = << >>

(* such a card, rotated, flipped and distorted, was rejected with exactly  *)
(* 2 corners inside                                                        *)
C11_Witness ==
    /\ stage = "returned"
    /\ call.pos_x = 64 /\ call.pos_y = 64 /\ call.scale = 50
    /\ call.angle.s # 0 /\ call.flip /\ call.persp /\ call.offs # NoDraws
    /\ ret.box = << >>
    /\ Inside(FinalCorners(call)) = 2

(* C18: a card whose scaled width or scaled height is below 10 pixels is   *)
(* rejected at the size check: no box, nothing painted, and none of the    *)
(* later exits (overlap, empty region, inside count) is the one taken.     *)
C18_TooSmallRejected ==
    (stage = "returned" /\
     (ScaledW(call) < MIN_CARD_PX \/ ScaledH(call) < MIN_CARD_PX)) =>
        /\ ret.path = "too_small"
        /\ ret.box = << >>
        /\ ret.painted = << >>

(* a 60x1200 card at scale 0.12 is 76 px tall and 3 px wide; the call asks *)
(* for a flip, a warp and a rotation, and its position is on the canvas    *)
C18_Witness ==
    /\ stage = "returned"
    /\ ScaledH(call) >= MIN_CARD_PX
    /\ ScaledW(call) < MIN_CARD_PX
    /\ call.flip /\ call.persp /\ call.angle.s # 0
    /\ call.pos_x = 640 /\ call.pos_y = 640
    /\ ret = [path |-> "too_small", box |-> << >>, painted |-> << >>]

(* the buffer at its offset and the canvas intersect in no pixel *)
ZeroArea(in) ==
    \/ OffX(in) + RotatedW(in) <= 0
    \/ OffY(in) + RotatedH(in) <= 0
    \/ OffX(in) >= OUTPUT_SIZE
    \/ OffY(in) >= OUTPUT_SIZE

(* C19: when the rotated buffer at its offset shares no pixel with the     *)
(* canvas, the edge-on-edge cases included, place_card_on_bg returns None  *)
(* and has painted nothing.                                                *)
C19_ZeroOverlapRejected ==
    (stage = "returned" /\ ~TooSmall(call) /\ ZeroArea(call)) =>
        /\ ret.path \in {"no_overlap", "empty_region"}
        /\ ret.box = << >>
        /\ ret.painted = << >>

(* the buffer's right edge is exactly the canvas's left edge, and its rows *)
(* are on the canvas: line 943 lets the call through, line 958 rejects it  *)
C19_Witness ==
    /\ stage = "returned"
    /\ ~TooSmall(call)
    /\ OffX(call) + RotatedW(call) = 0
    /\ OffY(call) + RotatedH(call) > 0
    /\ OffY(call) < OUTPUT_SIZE
    /\ ret = [path |-> "empty_region", box |-> << >>, painted |-> << >>]

(* C26: each destination corner of apply_perspective is its source corner  *)
(* moved inward by offsets in 0..int(0.10 * min(w, h)): the warped corners *)
(* lie in [0, w] x [0, h], each within a tenth of the shorter side of its  *)
(* source corner on each axis.                                             *)
C26_PerspectiveInward ==
    (stage = "returned" /\ call.persp /\ ~TooSmall(call)) =>
        LET w == ScaledW(call)
            h == ScaledH(call)
            src == SrcPts(w, h)
            pc == PerspCorners(call)
            o == PerspOffsets(w, h, call.offs)
        IN  /\ \A j \in 1..8 : 0 <= o[j] /\ 100 * o[j] <= 10 * Min(w, h)
            /\ \A k \in 1..4 :
                  /\ 0 <= pc[k][1] /\ pc[k][1] <= w
                  /\ 0 <= pc[k][2] /\ pc[k][2] <= h
                  /\ 10 * Abs(pc[k][1] - src[k][1]) <= Min(w, h)
                  /\ 10 * Abs(pc[k][2] - src[k][2]) <= Min(w, h)

(* a 229 x 320 card warped with mixed draws: the first corner moved by the *)
(* whole max_offset = 22 on x and not at all on y                          *)
C26_Witness ==
    /\ stage = "returned"
    /\ call.persp
    /\ ScaledW(call) = 229 /\ ScaledH(call) = 320
    /\ PerspCorners(call)[1] = << 22, 0 >>
    /\ PerspCorners(call)[2][1] < 229
    /\ PerspCorners(call)[3] # << 229, 320 >>
    /\ ret.path = "placed"

(* C27: whenever place_card_on_bg returns None for the box, the canvas is  *)
(* as it was received: no pixel of the card has been blended into it.      *)
C27_RejectedLeavesCanvas ==
    (stage = "returned" /\ ret.box = << >>) => ret.painted = << >>

(* C28: for every offset that passes the overlap check, the clipped source *)
(* rectangle lies in the rotated buffer, the clipped destination rectangle *)
(* lies in the canvas, and both have the same width and the same height.   *)
C28_ClippedRectsInBounds ==
    (stage = "returned" /\ ~TooSmall(call) /\ ~NoOverlap(call)) =>
        LET s == SrcRect(call)
            d == DstRect(call)
        IN  /\ 0 <= s[1] /\ s[1] <= s[3] /\ s[3] <= RotatedW(call)
            /\ 0 <= s[2] /\ s[2] <= s[4] /\ s[4] <= RotatedH(call)
            /\ 0 <= d[1] /\ d[1] <= d[3] /\ d[3] <= OUTPUT_SIZE
            /\ 0 <= d[2] /\ d[2] <= d[4] /\ d[4] <= OUTPUT_SIZE
            /\ d[3] - d[1] = s[3] - s[1]
            /\ d[4] - d[2] = s[4] - s[2]

(* a card hanging over the canvas's left and bottom edges: clipped on both *)
(* sides and blended                                                       *)
C28_Witness ==
    /\ stage = "returned"
    /\ ~TooSmall(call) /\ ~NoOverlap(call)
    /\ SrcRect(call)[1] > 0
    /\ SrcRect(call)[4] < RotatedH(call)
    /\ DstRect(call)[4] = OUTPUT_SIZE
    /\ ret.painted = DstRect(call)

----------------------------------------------------------------------------
(* Claims checked under SpecData *)

InLoop == dpc \in {"loop", "generated", "image_written"}
RunEnded == dpc = "returned" /\ disk.yaml > 0

FilesOf(j) == { f \in disk.files : f[3] = j }

(* C4: every index of 0..total_images-1 is in exactly one of train and     *)
(* val, the partition is made before the first sample, never changes, and  *)
(* the train part has int(total_images * 0.85) indices.                    *)
C4_SplitPartition ==
    /\ [](InLoop =>
            LET total == (card_paths * 150) \div 5
                val_set == { j \in 0..(total - 1) : SplitOf(j, train_set) = "val" }
            IN  /\ train_set \subseteq 0..(total - 1)
                /\ train_set \cap val_set = {}
                /\ train_set \cup val_set = 0..(total - 1)
                /\ Cardinality(train_set) = (total * 85) \div 100
                /\ \A f \in disk.files : f[1] = SplitOf(f[3], train_set))
    /\ [][InLoop => train_set' = train_set]_vars

(* a run ended with samples written under both splits *)
C4_Witness ==
    /\ RunEnded
    /\ Cardinality(train_set) = 25
    /\ \E f \in disk.files : f[1] = "train"
    /\ \E f \in disk.files : f[1] = "val"

(* the run is over, by main's return or by an exception *)
RunOver == card_paths > 0 /\ dpc \in {"returned", "raised"}

(* C7: a sample without boxes gets no image and no label file, raises the  *)
(* skip counter by exactly one, and the run reports the number of skips    *)
(* when it ends.                                                           *)
C7_SkipsCountedAndReported ==
    /\ (dpc = "generated" /\ sample.nlabels = 0) => FilesOf(idx) = {}
    /\ (InLoop \/ RunOver) =>
          empty_count = Cardinality({ j \in 0..(idx - 1) : FilesOf(j) = {} })
    /\ (RunOver /\ empty_count > 0) =>
          \E k \in 1..Len(out) :
              out[k] = <<"images skipped (no valid labels)", empty_count>>

(* C17: a run of create_dataset emits exactly one data.yaml, after the     *)
(* last sample index was processed, also when samples were skipped.        *)
C17_OneManifestAfterLoop ==
    /\ disk.yaml <= 1
    /\ disk.yaml = 1 => (dpc = "returned" /\ idx = TotalImages(card_paths))
    /\ RunOver => disk.yaml = 1

(* the indices below idx whose sample was written *)
Written == { j \in 0..(idx - 1) : FilesOf(j) # {} }

(* C29: when create_dataset is over, the loop has run exactly total_images *)
(* iterations, each index once, and the samples written plus the samples   *)
(* skipped as empty are total_images = len(card_paths) * 150 // 5.          *)
C29_EveryIndexOnce ==
    RunOver =>
        /\ idx = (card_paths * 150) \div 5
        /\ Cardinality(Written) + empty_count = (card_paths * 150) \div 5

(* C8: for every index whose iteration has completed, the image file was   *)
(* written iff the label file was, both under the index's split.           *)
C8_ImageIffLabel ==
    InLoop \/ RunEnded =>
        \A j \in 0..(idx - 1) : \A sp \in {"train", "val"} :
            /\ (<<sp, "images", j>> \in disk.files) <=> (<<sp, "labels", j>> \in disk.files)
            /\ (<<sp, "images", j>> \in disk.files) => sp = SplitOf(j, train_set)

(* the loop is past a written val sample, a written train sample and a     *)
(* skipped one                                                             *)
C8_Witness ==
    /\ dpc = "loop"
    /\ \E j \in 0..(idx - 1) : <<"val", "labels", j>> \in disk.files
    /\ \E j \in 0..(idx - 1) : <<"train", "labels", j>> \in disk.files
    /\ \E j \in 0..(idx - 1) : FilesOf(j) = {}

(* C9: without the database file, or with no card image on disk, main      *)
(* reports an error and returns; nothing is created.                       *)
C9_MissingInputsFatal ==
    (~env.db_exists \/ env.present = 0) =>
        /\ dpc \in {"idle", "main", "returned"}
        /\ disk = NoDisk
        /\ dpc = "returned" =>
              (Len(out) = 1 /\ out[1] \in { <<"ERROR: riftbound.db not found">>,
                                            <<"ERROR: No card images found">> })

(* main returned on a database whose rows name no existing file *)
C9_Witness ==
    /\ dpc = "returned"
    /\ env.db_exists
    /\ env.present = 0
    /\ out = << <<"ERROR: No card images found">> >>

(* C12: mosaic generation is open to train samples only: for an index of  *)
(* val, generate_image is called with use_mosaic false and does not        *)
(* delegate to generate_mosaic_image.                                      *)
C12_MosaicOnlyTrain ==
    (dpc \in {"generated", "image_written"}) =>
        /\ sample.split = SplitOf(idx, train_set)
        /\ (idx \notin train_set) => (~sample.use_mosaic /\ ~sample.mosaic)
        /\ sample.mosaic => (sample.use_mosaic /\ idx \in train_set)

(* generate_image has returned for an index of val, after a mosaic was     *)
(* written under train                                                     *)
C12_Witness ==
    /\ dpc = "generated"
    /\ idx \notin train_set
    /\ sample.split = "val"
    /\ ~sample.use_mosaic
    /\ sample.nlabels > 0
    /\ \E j \in 0..(idx - 1) : <<"train", "images", j>> \in disk.files

----------------------------------------------------------------------------
(* SpecDet: two runs of the program on the same inputs, side by side.      *)
(*                                                                         *)
(* The module holds two generators.  rng = np.random.default_rng(seed=42)  *)
(* (line 15) is seeded; it is read at lines 213, 311, 597 and 725, which   *)
(* fill pixels.  Every other draw calls the standard library's random      *)
(* module, which no line of the program seeds: its state at import comes   *)
(* from the operating system.  A generator is its state, a number below    *)
(* PRNG_MOD; a draw returns a value made of the state and advances it.     *)

SEED == 42
PRNG_MOD == 16
MaxEntropy == 3

(* np.random.default_rng(seed): the state is a function of the seed *)
default_rng(seed) == seed % PRNG_MOD

(* import random: the state is whatever the operating system supplies *)
Entropy == 0..MaxEntropy

Advance(state) == (5 * state + 3) % PRNG_MOD

RECURSIVE After(_, _)
(* the state after n draws *)
After(state, n) == IF n = 0 THEN state ELSE After(Advance(state), n - 1)

(* the value a draw maps to, out of the alternatives in choices *)
Pick(choices, state) == choices[(state % Len(choices)) + 1]

DetAngles == << [c |-> 65, s |-> 0], [c |-> 60, s |-> 25], [c |-> 52, s |-> -39] >>
DetScales == << 12, 30, 50 >>
DetPositions == << 256, 640, 1024 >>
DetOffsets ==
    << << 0, 0, 0, 0, 0, 0, 0, 0 >>,
       << PERSP_STEPS, 0, 1, PERSP_STEPS, 0, 1, PERSP_STEPS, 0 >> >>
DetCard == << 744, 1039 >>
DetCardCount == 1

Runs == {1, 2}

InitDet ==
    /\ runs \in [Runs -> [pc : {"shuffle"}, np : {default_rng(SEED)}, py : Entropy,
                          train_set : {{}}, labels : {<< >>}, noise : {<< >>}]]
    /\ PlaceIdle
    /\ DataIdle
    /\ GenIdle
    /\ AugIdle
    /\ PosIdle
    /\ CutIdle
    /\ LoadIdle
    /\ RerunIdle

(* create_dataset, lines 1217-1220: random.shuffle(indices) *)
DetShuffle(r) ==
    /\ runs[r].pc = "shuffle"
    /\ LET total == TotalImages(DetCardCount)
           k == runs[r].py % (MaxShuffle + 1)
       IN  runs' = [runs EXCEPT
                      ![r].train_set = TrainSetOf(Shuffled(total, k), TrainCount(total)),
                      ![r].py = Advance(@),
                      ![r].pc = "place"]
    /\ UNCHANGED exceptDet

(* _place_single_card, lines 1012-1027, and place_card_on_bg, lines        *)
(* 889-890: random.uniform for the angle, the scale and the position,      *)
(* random.random for the flip and the perspective gate, random.randint     *)
(* for the eight offsets; then the label line of generate_image            *)
DetPlaceCard(r) ==
    /\ runs[r].pc = "place"
    /\ LET s0 == runs[r].py
           persp == After(s0, 5) % 2 = 0
           in == [card_w |-> DetCard[1], card_h |-> DetCard[2],
                  angle |-> Pick(DetAngles, s0),
                  scale |-> Pick(DetScales, After(s0, 1)),
                  flip |-> After(s0, 2) % 2 = 0,
                  pos_x |-> Pick(DetPositions, After(s0, 3)),
                  pos_y |-> Pick(DetPositions, After(s0, 4)),
                  persp |-> persp,
                  offs |-> IF persp THEN Pick(DetOffsets, After(s0, 6)) ELSE NoDraws]
           corners == place_card_on_bg(in).box
       IN  runs' = [runs EXCEPT
                      ![r].labels = IF corners = << >> THEN @
                                    ELSE Append(@, LabelLine(corners)),
                      ![r].py = After(s0, IF persp THEN 14 ELSE 6),
                      ![r].pc = "noise"]
    /\ UNCHANGED exceptDet

(* augment_color, line 597: rng.normal(...), the seeded generator *)
DetNoise(r) ==
    /\ runs[r].pc = "noise"
    /\ runs' = [runs EXCEPT ![r].noise = Append(@, runs[r].np),
                            ![r].np = Advance(@),
                            ![r].pc = "done"]
    /\ UNCHANGED exceptDet

NextDet == \E r \in Runs : DetShuffle(r) \/ DetPlaceCard(r) \/ DetNoise(r)

SpecDet == InitDet /\ [][NextDet]_vars

(* C3: two runs with the same seed and the same assets end with the same   *)
(* split assignment and the same label lines.                              *)
C3_SameSeedSameDataset ==
    (runs # << >> /\ \A r \in Runs : runs[r].pc = "done") =>
        /\ runs[1].train_set = runs[2].train_set
        /\ runs[1].labels = runs[2].labels

----------------------------------------------------------------------------
(* SpecGen: one call of generate_image, data_creator.py:1031-1090, with    *)
(* add_distractor_objects, _place_single_card and generate_mosaic_image.   *)

(* An asset file as cv2.imread(path, cv2.IMREAD_UNCHANGED) finds it: None  *)
(* for an unreadable one, else an array of shape (h, w) for a grayscale    *)
(* image (channels = 1) or (h, w, channels).                               *)
CardAsset == [readable |-> TRUE, w |-> 744, h |-> 1039, channels |-> 3]
CardAssetAlpha == [readable |-> TRUE, w |-> 744, h |-> 1039, channels |-> 4]
GrayCardAsset == [readable |-> TRUE, w |-> 744, h |-> 1039, channels |-> 1]
UnreadableAsset == [readable |-> FALSE, w |-> 0, h |-> 0, channels |-> 0]
SmallDistractor == [readable |-> TRUE, w |-> 200, h |-> 200, channels |-> 4]
WideDistractor == [readable |-> TRUE, w |-> 3000, h |-> 400, channels |-> 3]
GrayDistractor == [readable |-> TRUE, w |-> 200, h |-> 200, channels |-> 1]

CardLists ==
    { << CardAsset, UnreadableAsset, CardAssetAlpha >>,
      << CardAsset, GrayCardAsset >> }

DistractorLists ==
    { << >>,
      << SmallDistractor, UnreadableAsset, WideDistractor, GrayDistractor >> }

GenInputs ==
    [use_mosaic : BOOLEAN, cards : CardLists, distractors : DistractorLists]

InitGen ==
    /\ gpc = "entry"
    /\ gin \in GenInputs
    /\ selected = << >>
    /\ labels = << >>
    /\ occupied = << >>
    /\ card_corners_for_shadows = << >>
    /\ attempts = NoAttempts
    /\ center = << >>
    /\ quadrant = 0
    /\ ops = << >>
    /\ sub_ops = << >>
    /\ shadows = << >>
    /\ exc = "none"
    /\ tries = << >>
    /\ PlaceIdle
    /\ DataIdle
    /\ DetIdle
    /\ AugIdle
    /\ PosIdle
    /\ CutIdle
    /\ LoadIdle
    /\ RerunIdle

(* lines 1048-1054: the mosaic gate not taken;                             *)
(* generate_random_background and add_lighting_gradient                    *)
MakeBackground ==
    /\ gpc = "entry"
    /\ ops' = << "generate_random_background", "add_lighting_gradient" >>
    /\ gpc' = "distractors"
    /\ UNCHANGED <<gin, selected, labels, occupied, card_corners_for_shadows,
                   attempts, center, quadrant, exc>>
    /\ UNCHANGED <<sub_ops, shadows>>
    /\ UNCHANGED tries
    /\ UNCHANGED exceptGen

(* add_distractor_objects, lines 788-835, for one distractor: the file     *)
(* read, scale in hundredths drawn, new_h = int(h_bg * scale), new_w =     *)
(* int(new_h * w / h), random.randint(0, w_bg - new_w) at line 806, which  *)
(* raises ValueError on an empty range, and dist_img.shape[2] at line 818, *)
(* which raises IndexError on a two-dimensional array.                     *)
DistractorStep(asset, scale) ==
    IF ~asset.readable THEN "skipped"
    ELSE LET new_h == PyInt(OUTPUT_SIZE * scale, 100)
             new_w == PyInt(new_h * asset.w, asset.h)
         IN  IF new_w < MIN_CARD_PX \/ new_h < MIN_CARD_PX THEN "skipped"
             ELSE IF OUTPUT_SIZE - new_w < 0 THEN "ValueError"
             ELSE IF OUTPUT_SIZE - new_h < 0 THEN "ValueError"
             ELSE IF asset.channels = 1 THEN "IndexError"
             ELSE "composited"

(* scale = random.uniform(0.05, 0.20), in hundredths *)
DistractorScales == { 5, 20 }

(* num_distractors = random.randint(1, 3); followed up to MaxDistractors *)
MaxDistractors == 1

(* the draws of the loop at lines 788-833: <<index into the list, scale>> *)
DistractorDraws(n) ==
    UNION { [1..k -> (1..n) \X DistractorScales] : k \in 1..MaxDistractors }

RECURSIVE DistractorLoop(_, _, _)
(* the steps of the loop up to its end or its first exception *)
DistractorLoop(assets, draws, done) ==
    IF draws = << >> THEN [steps |-> done, raised |-> "none"]
    ELSE LET step == DistractorStep(assets[Head(draws)[1]], Head(draws)[2])
         IN  IF step \in {"ValueError", "IndexError"}
             THEN [steps |-> done, raised |-> step]
             ELSE DistractorLoop(assets, Tail(draws), Append(done, step))

(* for _ in range(n): "add_distractor" for every composited one *)
CompositedOps(steps) ==
    [k \in 1..Cardinality({j \in 1..Len(steps) : steps[j] = "composited"})
        |-> "add_distractor"]

(* line 1057, add_distractor_objects: no distractor files, or the gate     *)
(* random.random() > DISTRACTOR_PROB closed (lines 779-780)                *)
NoDistractors ==
    /\ gpc = "distractors"
    /\ gpc' = "select"
    /\ UNCHANGED <<gin, selected, labels, occupied, card_corners_for_shadows,
                   attempts, center, quadrant, ops, exc>>
    /\ UNCHANGED <<sub_ops, shadows>>
    /\ UNCHANGED tries
    /\ UNCHANGED exceptGen

(* line 1057, add_distractor_objects with its loop (lines 782-835) *)
AddDistractorObjects ==
    /\ gpc = "distractors"
    /\ gin.distractors # << >>
    /\ \E draws \in DistractorDraws(Len(gin.distractors)) :
          LET r == DistractorLoop(gin.distractors, draws, << >>)
          IN  /\ ops' = ops \o CompositedOps(r.steps)
              /\ exc' = r.raised
              /\ gpc' = IF r.raised = "none" THEN "select" ELSE "raised"
    /\ UNCHANGED <<gin, selected, labels, occupied, card_corners_for_shadows,
                   attempts, center, quadrant>>
    /\ UNCHANGED <<sub_ops, shadows>>
    /\ UNCHANGED tries
    /\ UNCHANGED exceptGen

(* random.sample(population, k): k distinct members, in any order *)
Samples(n, k) ==
    { sel \in [1..k -> 1..n] : \A i, j \in 1..k : i # j => sel[i] # sel[j] }

(* _place_single_card's draws: angle (line 1012), scale in hundredths      *)
(* (line 1013), positions in 1/(2*OUTPUT_SIZE) (lines 1019-1020)           *)
GenAngles == { [c |-> 65, s |-> 0] }
GenScales == { 12, 60 }
GenPositions == { << 160, 640 >>, << 640, 640 >> }

(* a candidate at exactly scale * 0.35 from a card is accepted *)
FarFrom_AtLeast(pos, occ, scale) ==
    \A k \in 1..Len(occ) :
        LET dx == pos[1] - occ[k][1]
            dy == pos[2] - occ[k][2]
        IN  (dx * dx + dy * dy) * 625 >= scale * scale * 12544

(* math.hypot(px - ox, py - oy) > scale * 0.35, lines 1021-1024 *)
FarFrom(pos, occ, scale) ==
    \A k \in 1..Len(occ) :
        LET dx == pos[1] - occ[k][1]
            dy == pos[2] - occ[k][2]
        IN  (dx * dx + dy * dy) * 625 > scale * scale * 12544

(* The loop of lines 1018-1025 ends with the first draw far from every     *)
(* placed card, or, every draw having been near one, with the last draw.   *)
PositionOutcomes(occ, scale) ==
    LET far == { pos \in GenPositions : FarFrom(pos, occ, scale) }
        near == GenPositions \ far
    IN  far \cup near

(* a line appended for every card of the sample, placed or not *)
AppendLabel_Always(ls, corners, line) ==
    Append(ls, IF corners = << >> THEN << CLASS_ID, 0, 0, 0, 0, 0, 0, 0, 0 >> ELSE line)

(* lines 1068-1076: corners is None: continue; else labels.append(line) *)
AppendLabel(ls, corners, line) ==
    IF corners = << >> THEN ls ELSE Append(ls, line)

(* the center of a rejected card is kept for the later overlap checks *)
AppendOccupied_Always(occ, corners, pos) == Append(occ, pos)

(* lines 1068-1071: corners is None: continue; else occupied.append(pos) *)
AppendOccupied(occ, corners, pos) ==
    IF corners = << >> THEN occ ELSE Append(occ, pos)

(* lines 1059-1064 *)
SelectCards ==
    /\ gpc = "select"
    /\ \E n_cards \in 1..MAX_CARDS_PER_IMAGE :
          /\ selected' \in Samples(Len(gin.cards), Min(n_cards, Len(gin.cards)))
          /\ attempts' = [requested |-> Len(selected'), boxes |-> 0]
    /\ labels' = << >>
    /\ occupied' = << >>
    /\ card_corners_for_shadows' = << >>
    /\ gpc' = "cards"
    /\ UNCHANGED <<gin, center, quadrant, ops, exc>>
    /\ UNCHANGED <<sub_ops, shadows>>
    /\ UNCHANGED tries
    /\ UNCHANGED exceptGen

(* the arguments _place_single_card (line 1027) and _fill_mosaic_quadrant  *)
(* (lines 1131-1134) pass to place_card_on_bg; the perspective gate of     *)
(* line 889 is taken as closed                                             *)
CardCall(card, angle, scale, flip, pos) ==
    [card_w |-> card.w, card_h |-> card.h, angle |-> angle, scale |-> scale,
     pos_x |-> pos[1], pos_y |-> pos[2], flip |-> flip, persp |-> FALSE,
     offs |-> NoDraws]

(* place_card_on_bg on an array as cv2.imread returned it: line 883,       *)
(* card_resized.shape[2], raises IndexError on a two-dimensional array     *)
PlaceAsset(card, in) ==
    IF ~TooSmall(in) /\ card.channels = 1
    THEN [path |-> "IndexError", box |-> << >>, painted |-> << >>]
    ELSE place_card_on_bg(in)

(* one iteration of the loop at lines 1066-1076: _place_single_card        *)
(* (lines 1008-1028), the label line                                       *)
PlaceSingleCard ==
    /\ gpc = "cards"
    /\ selected # << >>
    /\ \E card \in { gin.cards[Head(selected)] } :
          IF ~card.readable
          THEN /\ gpc' = "cards"
               /\ tries' = Append(tries, [readable |-> FALSE, calls |-> 0,
                                          box |-> FALSE])
               /\ UNCHANGED <<labels, occupied, card_corners_for_shadows,
                              attempts, ops, exc>>
          ELSE \E a \in GenAngles, sc \in GenScales, fl \in BOOLEAN :
               \E pos \in PositionOutcomes(occupied, sc) :
               \E r \in { PlaceAsset(card, CardCall(card, a, sc, fl, pos)) } :
                  IF r.path = "IndexError"
                  THEN /\ gpc' = "raised"
                       /\ exc' = r.path
                       /\ tries' = Append(tries, [readable |-> TRUE, calls |-> 1,
                                                  box |-> FALSE])
                       /\ UNCHANGED <<labels, occupied, card_corners_for_shadows,
                                      attempts, ops>>
                  ELSE /\ labels' = AppendLabel(labels, r.box, LabelLine(r.box))
                       /\ occupied' = AppendOccupied(occupied, r.box, pos)
                       /\ tries' = Append(tries, [readable |-> TRUE, calls |-> 1,
                                                  box |-> r.box # << >>])
                       /\ card_corners_for_shadows' =
                             IF r.box = << >> THEN card_corners_for_shadows
                             ELSE Append(card_corners_for_shadows, r.box)
                       /\ attempts' = IF r.box = << >> THEN attempts
                                      ELSE [attempts EXCEPT !.boxes = @ + 1]
                       /\ ops' = IF r.painted = << >> THEN ops
                                 ELSE Append(ops, "place_card_on_bg")
                       /\ gpc' = "cards"
                       /\ exc' = exc
    /\ selected' = Tail(selected)
    /\ UNCHANGED <<gin, center, quadrant>>
    /\ UNCHANGED <<sub_ops, shadows>>
    /\ UNCHANGED exceptGen

(* a gate drawn for every card *)
ShadowGates_PerCard(n) == [1..n -> BOOLEAN]

(* if random.random() < SHADOW_PROB, line 1079: one draw, the same answer  *)
(* for each of the n cards of the loop at line 1080                        *)
ShadowGates(n) == { [k \in 1..n |-> gate] : gate \in BOOLEAN }

RECURSIVE Gated(_, _, _)
(* the members of seq, from the k-th on, whose gate is open *)
Gated(seq, gates, k) ==
    IF k > Len(seq) THEN << >>
    ELSE (IF gates[k] THEN << seq[k] >> ELSE << >>) \o Gated(seq, gates, k + 1)

(* lines 1078-1081: the shadow gate, once, after the last card *)
AddShadows ==
    /\ gpc = "cards"
    /\ selected = << >>
    /\ \E gates \in ShadowGates(Len(card_corners_for_shadows)) :
          /\ shadows' = Gated(card_corners_for_shadows, gates, 1)
          /\ ops' = ops \o [k \in 1..Len(shadows') |-> "add_card_shadow"]
    /\ gpc' = "augment"
    /\ UNCHANGED <<gin, selected, labels, occupied, card_corners_for_shadows,
                   attempts, center, quadrant, exc>>
    /\ UNCHANGED sub_ops
    /\ UNCHANGED tries
    /\ UNCHANGED exceptGen

(* patch_size = random.randint(20, 80), line 751 *)
CutoutPatches == { 20, 80 }

(* lines 1083-1090: the global augmentations, and apply_cutout's           *)
(* random.randint(0, w - patch_size) (lines 753-754)                       *)
GlobalAugment ==
    /\ gpc = "augment"
    /\ \E cutout \in BOOLEAN, patch_size \in CutoutPatches :
          IF cutout /\ OUTPUT_SIZE - patch_size < 0
          THEN /\ gpc' = "raised"
               /\ exc' = "ValueError"
               /\ ops' = ops \o << "augment_color", "add_vignette",
                                   "apply_motion_blur", "apply_jpeg_artifacts" >>
          ELSE /\ gpc' = "returned"
               /\ exc' = exc
               /\ ops' = ops \o << "augment_color", "add_vignette",
                                   "apply_motion_blur", "apply_jpeg_artifacts",
                                   "apply_cutout" >>
    /\ UNCHANGED <<gin, selected, labels, occupied, card_corners_for_shadows,
                   attempts, center, quadrant>>
    /\ UNCHANGED <<sub_ops, shadows>>
    /\ UNCHANGED tries
    /\ UNCHANGED exceptGen

(* generate_mosaic_image, lines 1165-1177: the canvas, the split point *)
EnterMosaic ==
    /\ gpc = "entry"
    /\ gin.use_mosaic
    /\ center' \in SplitPoints \X SplitPoints
    /\ ops' = << "np.zeros" >>
    /\ attempts' = NoAttempts
    /\ labels' = << >>
    /\ quadrant' = 0
    /\ gpc' = "mosaic"
    /\ UNCHANGED <<gin, selected, occupied, card_corners_for_shadows, exc>>
    /\ UNCHANGED <<sub_ops, shadows>>
    /\ UNCHANGED tries
    /\ UNCHANGED exceptGen

(* _fill_mosaic_quadrant's draws for a card: scale = random.uniform(0.25,  *)
(* 0.65), position = random.uniform(0.2, 0.8) twice (lines 1128-1134)      *)
MosaicDraws ==
    { [angle |-> [c |-> 65, s |-> 0], scale |-> 25, pos |-> << 640, 640 >>],
      [angle |-> [c |-> 65, s |-> 0], scale |-> 65, pos |-> << 256, 640 >>] }

(* (x2 - x1) < 50 or (y2 - y1) < 50, line 1181 *)
MIN_REGION == 50

(* the sub-scene put through augment_color as well *)
QuadrantBackground_Augmented ==
    << "generate_random_background", "add_lighting_gradient", "augment_color" >>

(* _fill_mosaic_quadrant, lines 1116-1117: sub_bg *)
QuadrantBackground == << "generate_random_background", "add_lighting_gradient" >>

(* lines 1179-1183 and _fill_mosaic_quadrant, lines 1113-1121: the next    *)
(* region, skipped when too small, else its own background and cards       *)
StartQuadrant ==
    /\ gpc = "mosaic"
    /\ quadrant < 4
    /\ \E region \in { Regions(center[1], center[2])[quadrant + 1] } :
          IF region[3] - region[1] < MIN_REGION \/ region[4] - region[2] < MIN_REGION
          THEN /\ quadrant' = quadrant + 1
               /\ gpc' = "mosaic"
               /\ UNCHANGED <<selected, attempts, sub_ops>>
          ELSE /\ \E n_cards \in 1..2 :
                    selected' \in Samples(Len(gin.cards), Min(n_cards, Len(gin.cards)))
               /\ attempts' = [attempts EXCEPT !.requested = @ + Len(selected')]
               /\ sub_ops' = QuadrantBackground
               /\ quadrant' = quadrant
               /\ gpc' = "quadrant"
    /\ UNCHANGED <<gin, labels, occupied, card_corners_for_shadows, center, ops, exc>>
    /\ UNCHANGED shadows
    /\ UNCHANGED tries
    /\ UNCHANGED exceptGen

(* one iteration of the loop at lines 1123-1145; the lines of the region   *)
(* reach all_labels at line 1186 unless an exception leaves the call       *)
FillQuadrantCard ==
    /\ gpc = "quadrant"
    /\ selected # << >>
    /\ \E card \in { gin.cards[Head(selected)] } :
       \E region \in { Regions(center[1], center[2])[quadrant + 1] } :
          IF ~card.readable
          THEN /\ gpc' = "quadrant"
               /\ UNCHANGED <<labels, attempts, sub_ops, exc>>
          ELSE \E d \in MosaicDraws, fl \in BOOLEAN :
               \E r \in { PlaceAsset(card, CardCall(card, d.angle, d.scale, fl, d.pos)) } :
                  IF r.path = "IndexError"
                  THEN /\ gpc' = "raised"
                       /\ exc' = r.path
                       /\ UNCHANGED <<labels, attempts, sub_ops>>
                  ELSE /\ labels' = AppendLabel(labels, r.box,
                                       MosaicLabelLine(MosaicTransform(region, r.box)))
                       /\ sub_ops' = IF r.painted = << >> THEN sub_ops
                                     ELSE Append(sub_ops, "place_card_on_bg")
                       /\ attempts' = IF r.box = << >> THEN attempts
                                      ELSE [attempts EXCEPT !.boxes = @ + 1]
                       /\ gpc' = "quadrant"
                       /\ exc' = exc
    /\ selected' = Tail(selected)
    /\ UNCHANGED <<gin, occupied, card_corners_for_shadows, center, quadrant, ops>>
    /\ UNCHANGED shadows
    /\ UNCHANGED tries
    /\ UNCHANGED exceptGen

(* lines 1147-1148 and 1185-1186: the region resized and pasted *)
PasteQuadrant ==
    /\ gpc = "quadrant"
    /\ selected = << >>
    /\ ops' = Append(ops, "paste_quadrant")
    /\ sub_ops' = << >>
    /\ quadrant' = quadrant + 1
    /\ gpc' = "mosaic"
    /\ UNCHANGED <<gin, selected, labels, occupied, card_corners_for_shadows,
                   attempts, center, exc>>
    /\ UNCHANGED shadows
    /\ UNCHANGED tries
    /\ UNCHANGED exceptGen

(* lines 1188-1193 *)
MosaicAugment ==
    /\ gpc = "mosaic"
    /\ quadrant = 4
    /\ ops' = ops \o << "augment_color", "add_vignette",
                        "apply_motion_blur", "apply_jpeg_artifacts" >>
    /\ gpc' = "returned"
    /\ UNCHANGED <<gin, selected, labels, occupied, card_corners_for_shadows,
                   attempts, center, quadrant, exc>>
    /\ UNCHANGED <<sub_ops, shadows>>
    /\ UNCHANGED tries
    /\ UNCHANGED exceptGen

NextGen ==
    \/ MakeBackground
    \/ NoDistractors
    \/ AddDistractorObjects
    \/ SelectCards
    \/ PlaceSingleCard
    \/ AddShadows
    \/ GlobalAugment
    \/ EnterMosaic
    \/ StartQuadrant
    \/ FillQuadrantCard
    \/ PasteQuadrant
    \/ MosaicAugment

SpecGen == InitGen /\ [][NextGen]_vars

----------------------------------------------------------------------------
(* Claims checked under SpecGen *)

(* C6: the label lines generate_image returns are exactly as many as the   *)
(* cards of the sample whose placement returned a box, never more than the *)
(* cards requested, and each line is the class id 0 and 8 coordinates.     *)
C6_OneLinePerBox ==
    (gpc = "returned") =>
        /\ Len(labels) = attempts.boxes
        /\ attempts.boxes <= attempts.requested
        /\ \A j \in 1..Len(labels) : Len(labels[j]) = 9 /\ labels[j][1] = 0

(* 3 cards requested outside a mosaic, 1 placement returned a box, 1 line *)
C6_Witness ==
    /\ gpc = "returned"
    /\ center = << >>
    /\ attempts = [requested |-> 3, boxes |-> 1]
    /\ Len(labels) = 1

(* C10: no asset makes generate_image or generate_mosaic_image raise: no   *)
(* exception leaves the call, whatever the cards and distractors are.      *)
C10_NoSampleRaises == exc = "none" /\ gpc # "raised"

GlobalSteps ==
    { "augment_color", "add_vignette", "apply_motion_blur",
      "apply_jpeg_artifacts", "apply_cutout" }

CountOf(log, name) == Cardinality({ k \in 1..Len(log) : log[k] = name })

InMosaic == center # << >>

(* C13: in generate_mosaic_image each global augmentation is applied once, *)
(* to the mosaic, after the last quadrant was pasted; none is applied to a *)
(* quadrant's sub-scene.                                                   *)
C13_MosaicAugmentedOnce ==
    /\ \A k \in 1..Len(sub_ops) : sub_ops[k] \notin GlobalSteps
    /\ (InMosaic /\ gpc \in {"mosaic", "quadrant", "raised"}) =>
          \A k \in 1..Len(ops) : ops[k] \notin GlobalSteps
    /\ (InMosaic /\ gpc = "returned") =>
          /\ CountOf(ops, "paste_quadrant") = 4
          /\ \A step \in GlobalSteps \ {"apply_cutout"} : CountOf(ops, step) = 1
          /\ \A i, j \in 1..Len(ops) :
                (ops[i] = "paste_quadrant" /\ ops[j] \in GlobalSteps) => i < j

(* a mosaic of four pasted quadrants was returned with boxes *)
C13_Witness ==
    /\ InMosaic
    /\ gpc = "returned"
    /\ quadrant = 4
    /\ attempts.boxes >= 2
    /\ CountOf(ops, "augment_color") = 1

(* C14: one gate per sample decides the shadows: either every card whose   *)
(* placement returned a box gets exactly one shadow, or no card gets one;  *)
(* a rejected card never gets one.                                         *)
C14_ShadowsAllOrNothing ==
    /\ (gpc \in {"augment", "returned"} /\ ~InMosaic) =>
          /\ Len(card_corners_for_shadows) = attempts.boxes
          /\ shadows \in { << >>, card_corners_for_shadows }
    /\ (gpc \notin {"augment", "returned", "raised"} \/ InMosaic) => shadows = << >>
    /\ CountOf(ops, "add_card_shadow") = Len(shadows)

(* of 3 cards 2 were placed and 1 rejected, and the 2 got their shadows *)
C14_Witness ==
    /\ gpc = "augment"
    /\ attempts = [requested |-> 3, boxes |-> 2]
    /\ Len(shadows) = 2
    /\ shadows = card_corners_for_shadows

(* C15: a card's shadow is rendered before the card is composited: no      *)
(* add_card_shadow runs on a canvas that already holds a card.             *)
C15_ShadowBeneathCard ==
    \A i, j \in 1..Len(ops) :
        (ops[i] = "place_card_on_bg" /\ ops[j] = "add_card_shadow") => j < i

(* two rectangles <<x1, y1, x2, y2>> share a pixel *)
Overlapping(a, b) ==
    /\ Max(a[1], b[1]) < Min(a[3], b[3])
    /\ Max(a[2], b[2]) < Min(a[4], b[4])

Area(a) == (a[3] - a[1]) * (a[4] - a[2])

(* C24: the four regions around the split point lie in the canvas, are     *)
(* pairwise disjoint and cover it; with the split point drawn in           *)
(* [size/4, 3*size/4] each is at least 50 pixels wide and high, so every   *)
(* region passed has been filled and pasted: none is skipped.              *)
C24_MosaicTilesCanvas ==
    InMosaic =>
        LET rs == Regions(center[1], center[2])
        IN  /\ 0 < center[1] /\ center[1] < OUTPUT_SIZE
            /\ 0 < center[2] /\ center[2] < OUTPUT_SIZE
            /\ \A k \in 1..4 :
                  /\ 0 <= rs[k][1] /\ rs[k][1] < rs[k][3] /\ rs[k][3] <= OUTPUT_SIZE
                  /\ 0 <= rs[k][2] /\ rs[k][2] < rs[k][4] /\ rs[k][4] <= OUTPUT_SIZE
                  /\ rs[k][3] - rs[k][1] >= 50
                  /\ rs[k][4] - rs[k][2] >= 50
            /\ \A j, k \in 1..4 : j # k => ~Overlapping(rs[j], rs[k])
            /\ Area(rs[1]) + Area(rs[2]) + Area(rs[3]) + Area(rs[4])
                  = OUTPUT_SIZE * OUTPUT_SIZE
            /\ gpc = "mosaic" => CountOf(ops, "paste_quadrant") = quadrant
            /\ gpc = "returned" => CountOf(ops, "paste_quadrant") = 4

(* the split point at a corner of its range: the smallest quadrant is      *)
(* 160 x 160, and all four were pasted                                     *)
C24_Witness ==
    /\ InMosaic
    /\ gpc = "returned"
    /\ center = << 160, 480 >>
    /\ Area(Regions(center[1], center[2])[3]) = 160 * 160
    /\ CountOf(ops, "paste_quadrant") = 4

(* generate_image's card loop is running or has ended without a raise *)
InCardLoop == ~InMosaic /\ gpc \in {"cards", "augment", "returned"}

BoxesOf(log) == Cardinality({ k \in 1..Len(log) : log[k].box })

(* C21 as stated: every selected card gets exactly one call to             *)
(* place_card_on_bg, and a rejected card leaves no label line, no shadow   *)
(* entry and no center in occupied.                                        *)
C21_OneCallPerCard ==
    InCardLoop =>
        /\ Len(tries) + Len(selected) = attempts.requested
        /\ \A k \in 1..Len(tries) : tries[k].calls = 1
        /\ Len(labels) = BoxesOf(tries)
        /\ Len(occupied) = BoxesOf(tries)
        /\ Len(card_corners_for_shadows) = BoxesOf(tries)

(* C21, corrected: every selected card is attempted once and never again:  *)
(* a card that decodes gets exactly one call to place_card_on_bg, a card   *)
(* that does not decode gets none; only a card whose call returned a box   *)
(* adds a label line, a shadow entry and a center to occupied.             *)
C21_OneAttemptPerCard ==
    InCardLoop =>
        /\ Len(tries) + Len(selected) = attempts.requested
        /\ \A k \in 1..Len(tries) :
              tries[k].calls = (IF tries[k].readable THEN 1 ELSE 0)
        /\ Len(labels) = BoxesOf(tries)
        /\ Len(occupied) = BoxesOf(tries)
        /\ Len(card_corners_for_shadows) = BoxesOf(tries)

(* the first card's call was rejected, the second card's returned a box:   *)
(* the loop is over with one label, one center and one shadow entry        *)
C21_Witness ==
    /\ gpc = "augment"
    /\ ~InMosaic
    /\ Len(tries) = 2
    /\ tries[1] = [readable |-> TRUE, calls |-> 1, box |-> FALSE]
    /\ tries[2] = [readable |-> TRUE, calls |-> 1, box |-> TRUE]
    /\ Len(labels) = 1
    /\ Len(occupied) = 1
    /\ Len(card_corners_for_shadows) = 1

-----------------------------------------------------------------------------
(* The global augmentations of one sample, data_creator.py:1083-1088 and   *)
(* 1186-1189: augment_color, add_vignette, apply_motion_blur,              *)
(* apply_jpeg_artifacts and, for a single scene only, apply_cutout.        *)
(* `applied` lists the effects that changed the canvas, in order.          *)

(* random.randint(1, 3) patches, data_creator.py:750 *)
CUTOUT_MAX == 3

(* the cards of one sample that are followed *)
MaxAugCards == 2

(* [k copies of name] *)
Repeat(name, k) == [i \in 1..k |-> name]

(* a single scene starts with an empty canvas (line 1051); a mosaic enters *)
(* its augmentations (line 1188) with the quadrants pasted                 *)
InitAug ==
    /\ for_mosaic \in BOOLEAN
    /\ apc = IF for_mosaic THEN "augment_color" ELSE "generate_random_background"
    /\ applied = << >>
    /\ PlaceIdle
    /\ DataIdle
    /\ DetIdle
    /\ GenIdle
    /\ PosIdle
    /\ CutIdle
    /\ LoadIdle
    /\ RerunIdle

(* the effects a gate lets through *)
Effect(open, name) == IF open THEN <<name>> ELSE << >>

(* lines 1051-1054: generate_random_background, add_lighting_gradient *)
ComposeBackground ==
    /\ apc = "generate_random_background"
    /\ applied' = applied \o << "background", "lighting_gradient" >>
    /\ apc' = "add_distractor_objects"
    /\ UNCHANGED for_mosaic
    /\ UNCHANGED exceptAug

(* line 1057: the distractors composited, none when the gate is closed *)
ComposeDistractors ==
    /\ apc = "add_distractor_objects"
    /\ \E k \in 0..MaxDistractors : applied' = applied \o Repeat("distractor", k)
    /\ apc' = "place_cards"
    /\ UNCHANGED for_mosaic
    /\ UNCHANGED exceptAug

(* lines 1059-1076: the selected cards whose pixels were blended *)
ComposeCards ==
    /\ apc = "place_cards"
    /\ \E k \in 0..MaxAugCards : applied' = applied \o Repeat("card", k)
    /\ apc' = "add_card_shadow"
    /\ UNCHANGED for_mosaic
    /\ UNCHANGED exceptAug

(* lines 1078-1081: behind one gate, a shadow for every card with a box *)
ComposeShadows ==
    /\ apc = "add_card_shadow"
    /\ \E gate \in BOOLEAN, boxes \in 0..CountOf(applied, "card") :
          applied' = applied \o (IF gate THEN Repeat("shadow", boxes) ELSE << >>)
    /\ apc' = "augment_color"
    /\ UNCHANGED for_mosaic
    /\ UNCHANGED exceptAug

(* noise is added before the colour jitter *)
ColorEffects_NoiseFirst(sharp, hue, jitter, noise, blur) ==
    <<"brightness", "contrast", "saturation">>
        \o Effect(sharp, "sharpness")
        \o Effect(hue, "hue_shift")
        \o Effect(noise, "gaussian_noise")
        \o Effect(jitter, "color_jitter")
        \o Effect(blur, "gaussian_blur")

(* augment_color, lines 567-603, in the order of its statements *)
ColorEffects(sharp, hue, jitter, noise, blur) ==
    <<"brightness", "contrast", "saturation">>
        \o Effect(sharp, "sharpness")
        \o Effect(hue, "hue_shift")
        \o Effect(jitter, "color_jitter")
        \o Effect(noise, "gaussian_noise")
        \o Effect(blur, "gaussian_blur")

(* brightness, contrast and saturation always; sharpness, hue shift (no    *)
(* change for a drawn shift of 0), colour jitter, gaussian noise and       *)
(* gaussian blur each behind a draw                                        *)
AugmentColor ==
    /\ apc = "augment_color"
    /\ \E sharp, hue, jitter, noise, blur \in BOOLEAN :
           applied' = applied \o ColorEffects(sharp, hue, jitter, noise, blur)
    /\ apc' = "add_vignette"
    /\ UNCHANGED for_mosaic
    /\ UNCHANGED exceptAug

AddVignette ==
    /\ apc = "add_vignette"
    /\ \E open \in BOOLEAN : applied' = applied \o Effect(open, "vignette")
    /\ apc' = "apply_motion_blur"
    /\ UNCHANGED for_mosaic
    /\ UNCHANGED exceptAug

ApplyMotionBlur ==
    /\ apc = "apply_motion_blur"
    /\ \E open \in BOOLEAN : applied' = applied \o Effect(open, "motion_blur")
    /\ apc' = "apply_jpeg_artifacts"
    /\ UNCHANGED for_mosaic
    /\ UNCHANGED exceptAug

(* the last call for a mosaic; a single scene goes on to apply_cutout *)
ApplyJpegArtifacts ==
    /\ apc = "apply_jpeg_artifacts"
    /\ \E open \in BOOLEAN : applied' = applied \o Effect(open, "jpeg_artifacts")
    /\ apc' = IF for_mosaic THEN "returned" ELSE "apply_cutout"
    /\ UNCHANGED for_mosaic
    /\ UNCHANGED exceptAug

(* behind its gate, 1..3 patches; a patch is filled at the first of 10     *)
(* drawn places far from every card center, or not at all                  *)
ApplyCutout ==
    /\ apc = "apply_cutout"
    /\ \/ applied' = applied
       \/ \E n \in 1..CUTOUT_MAX : \E filled \in 0..n :
              applied' = applied \o [i \in 1..filled |-> "cutout_patch"]
    /\ apc' = "returned"
    /\ UNCHANGED for_mosaic
    /\ UNCHANGED exceptAug

NextAug ==
    \/ ComposeBackground
    \/ ComposeDistractors
    \/ ComposeCards
    \/ ComposeShadows
    \/ AugmentColor
    \/ AddVignette
    \/ ApplyMotionBlur
    \/ ApplyJpegArtifacts
    \/ ApplyCutout

SpecAug == InitAug /\ [][NextAug]_vars

Degrading == {"gaussian_noise", "gaussian_blur", "jpeg_artifacts"}

ChangesContent == {"vignette", "cutout_patch", "card", "shadow"}

(* the place of an effect in the order of generate_image's steps *)
Rank(name) ==
    CASE name = "background" -> 1
      [] name = "lighting_gradient" -> 2
      [] name = "distractor" -> 3
      [] name = "card" -> 4
      [] name = "shadow" -> 5
      [] name = "brightness" -> 6
      [] name = "contrast" -> 7
      [] name = "saturation" -> 8
      [] name = "sharpness" -> 9
      [] name = "hue_shift" -> 10
      [] name = "color_jitter" -> 11
      [] name = "gaussian_noise" -> 12
      [] name = "gaussian_blur" -> 13
      [] name = "vignette" -> 14
      [] name = "motion_blur" -> 15
      [] name = "jpeg_artifacts" -> 16
      [] name = "cutout_patch" -> 17

Repeatable == {"distractor", "card", "shadow", "cutout_patch"}

C16_DegradationLast ==
    \A i, j \in 1..Len(applied) :
        (i < j /\ applied[i] \in Degrading) => applied[j] \notin ChangesContent

-----------------------------------------------------------------------------
(* The position loop of _place_single_card, data_creator.py:1016-1028      *)

(* for _ in range(15), line 1018 *)
POSITION_TRIES == 15

(* scale in hundredths: at 0.25 the threshold scale * 0.35 is 112/1280 *)
PosScales == { 25 }

(* the candidates random.uniform(0.12, 0.88) can give, in 1/(2*OUTPUT_SIZE) *)
PosCandidates == { << 640, 640 >>, << 752, 640 >>, << 160, 640 >> }

(* the centers of the cards generate_image has placed so far *)
PosOccupied ==
    { << >>,
      << << 640, 640 >> >>,
      << << 1000, 1000 >>, << 160, 640 >> >> }

(* px, py = 0.5, 0.5 (line 1017) *)
InitPos ==
    /\ ppc = "loop"
    /\ pin \in [occupied : PosOccupied, scale : PosScales]
    /\ tried = << >>
    /\ pxy = << 640, 640 >>
    /\ PlaceIdle
    /\ DataIdle
    /\ DetIdle
    /\ GenIdle
    /\ AugIdle
    /\ CutIdle
    /\ LoadIdle
    /\ RerunIdle

(* one iteration, lines 1018-1025: draw px, py; break when occupied is     *)
(* empty or the draw is far from every center; the loop also ends with     *)
(* its last iteration                                                      *)
DrawPosition ==
    /\ ppc = "loop"
    /\ Len(tried) < POSITION_TRIES
    /\ \E pos \in PosCandidates :
          /\ tried' = Append(tried, pos)
          /\ pxy' = pos
          /\ ppc' = IF \/ pin.occupied = << >>
                       \/ FarFrom(pos, pin.occupied, pin.scale)
                       \/ Len(tried) + 1 = POSITION_TRIES
                    THEN "placing"
                    ELSE "loop"
    /\ UNCHANGED pin
    /\ UNCHANGED exceptPos

(* line 1027: place_card_on_bg(bg, card_img, angle, scale, px, py, flip) *)
CallPlaceCard ==
    /\ ppc = "placing"
    /\ ppc' = "returned"
    /\ UNCHANGED <<pin, tried, pxy>>
    /\ UNCHANGED exceptPos

NextPos ==
    \/ DrawPosition
    \/ CallPlaceCard

SpecPos == InitPos /\ [][NextPos]_vars

(* the candidate is farther than scale * 0.35 from every accepted center: *)
(* d / 1280 > 0.35 * scale / 100, that is 25 * d > 112 * scale             *)
Exceeds(pos) ==
    \A k \in 1..Len(pin.occupied) :
        LET dx == pos[1] - pin.occupied[k][1]
            dy == pos[2] - pin.occupied[k][2]
        IN  25 * 25 * (dx * dx + dy * dy) > (112 * pin.scale) * (112 * pin.scale)

(* C20: the position handed to place_card_on_bg is the first draw farther  *)
(* than scale*0.35 from every accepted center, or the 15th draw when no    *)
(* draw is; never more than 15 draws are made.                             *)
C20_FirstFarOrLastDraw ==
    /\ Len(tried) <= POSITION_TRIES
    /\ ppc \in {"placing", "returned"} =>
          LET n == Len(tried)
          IN  /\ n >= 1
              /\ pxy = tried[n]
              /\ \A k \in 1..(n - 1) : ~Exceeds(tried[k])
              /\ Exceeds(tried[n]) \/ n = POSITION_TRIES

(* fifteen draws, none far enough, the last two different: the 15th is     *)
(* the position of the call                                                *)
C20_Witness ==
    /\ ppc = "returned"
    /\ Len(tried) = POSITION_TRIES
    /\ \A k \in 1..POSITION_TRIES : ~Exceeds(tried[k])
    /\ tried[POSITION_TRIES] = << 752, 640 >>
    /\ tried[POSITION_TRIES - 1] = << 640, 640 >>
    /\ pxy = << 752, 640 >>

-----------------------------------------------------------------------------
(* apply_cutout, data_creator.py:728-759, with _parse_label_centers        *)
(* (662-678), _is_far_from_centers (681-704) and _fill_cutout (707-725)    *)

(* for _ in range(10), line 752 *)
CUTOUT_TRIES == 10

(* label lines as 8 coordinates in thousandths: a card around (0.5, 0.5)   *)
(* and a card around (0.1, 0.1)                                            *)
CenterLabel == << 400, 400, 600, 400, 600, 600, 400, 600 >>
CornerLabel == << 50, 50, 150, 50, 150, 150, 50, 150 >>

CutLabels == { << >>, << CenterLabel >>, << CenterLabel, CornerLabel >> }

(* the places random.randint(0, w - patch_size) can give, in pixels *)
CutPlaces == { << 300, 300 >>, << 40, 40 >> }

(* (sum(coords[0::2]) / 4, sum(coords[1::2]) / 4), as numerators over 4000 *)
ParseLabelCenters(ls) ==
    [k \in 1..Len(ls) |->
        << ls[k][1] + ls[k][3] + ls[k][5] + ls[k][7],
           ls[k][2] + ls[k][4] + ls[k][6] + ls[k][8] >>]

(* far from one center is enough *)
IsFarFromCenters_AnyCenter(x, y, size, centers) ==
    \E k \in 1..Len(centers) :
        \/ Abs(25 * (2 * x + size) - 8 * centers[k][1]) >= 4800
        \/ Abs(25 * (2 * y + size) - 8 * centers[k][2]) >= 4800

(* cx_norm = (x + size / 2) / w; abs(cx_norm - ccx) >= 0.15 or the same on *)
(* y, for all centers; over 32000 = lcm(2 * OUTPUT_SIZE, 4000)             *)
IsFarFromCenters(x, y, size, centers) ==
    \A k \in 1..Len(centers) :
        \/ Abs(25 * (2 * x + size) - 8 * centers[k][1]) >= 4800
        \/ Abs(25 * (2 * y + size) - 8 * centers[k][2]) >= 4800

InitCut ==
    /\ cut_pc = "gate"
    /\ cut_labels \in CutLabels
    /\ cut_left = 0
    /\ cut_cur = NoPatch
    /\ cut_log = << >>
    /\ cut_painted = << >>
    /\ PlaceIdle
    /\ DataIdle
    /\ DetIdle
    /\ GenIdle
    /\ AugIdle
    /\ PosIdle
    /\ LoadIdle
    /\ RerunIdle

(* lines 743-744: random.random() > CUTOUT_PROB: return image *)
CutoutGateClosed ==
    /\ cut_pc = "gate"
    /\ cut_pc' = "returned"
    /\ UNCHANGED <<cut_labels, cut_left, cut_cur, cut_log, cut_painted>>
    /\ UNCHANGED exceptCut

(* lines 746-750: range(random.randint(1, 3)) *)
CutoutGateOpen ==
    /\ cut_pc = "gate"
    /\ cut_left' \in 1..CUTOUT_MAX
    /\ cut_pc' = "patch"
    /\ UNCHANGED <<cut_labels, cut_cur, cut_log, cut_painted>>
    /\ UNCHANGED exceptCut

(* line 751: patch_size = random.randint(20, 80) *)
StartPatch ==
    /\ cut_pc = "patch"
    /\ cut_left > 0
    /\ \E size \in CutoutPatches : cut_cur' = [size |-> size, tries |-> 0]
    /\ cut_left' = cut_left - 1
    /\ cut_pc' = "try"
    /\ UNCHANGED <<cut_labels, cut_log, cut_painted>>
    /\ UNCHANGED exceptCut

(* lines 752-757: one draw of x, y; _fill_cutout and break when it is far  *)
(* from every center; the inner loop ends with its 10th draw               *)
TryPlace ==
    /\ cut_pc = "try"
    /\ cut_cur.tries < CUTOUT_TRIES
    /\ \E at \in { q \in CutPlaces : /\ q[1] <= OUTPUT_SIZE - cut_cur.size
                                     /\ q[2] <= OUTPUT_SIZE - cut_cur.size } :
          IF IsFarFromCenters(at[1], at[2], cut_cur.size,
                              ParseLabelCenters(cut_labels))
          THEN /\ cut_painted' = Append(cut_painted, << at[1], at[2], cut_cur.size >>)
               /\ cut_log' = Append(cut_log, [size |-> cut_cur.size,
                                              tries |-> cut_cur.tries + 1,
                                              at |-> at])
               /\ cut_cur' = NoPatch
               /\ cut_pc' = "patch"
          ELSE IF cut_cur.tries + 1 = CUTOUT_TRIES
          THEN /\ cut_log' = Append(cut_log, [size |-> cut_cur.size,
                                              tries |-> CUTOUT_TRIES,
                                              at |-> << >>])
               /\ cut_cur' = NoPatch
               /\ cut_pc' = "patch"
               /\ UNCHANGED cut_painted
          ELSE /\ cut_cur' = [cut_cur EXCEPT !.tries = @ + 1]
               /\ UNCHANGED <<cut_pc, cut_log, cut_painted>>
    /\ UNCHANGED <<cut_labels, cut_left>>
    /\ UNCHANGED exceptCut

(* line 759: return result *)
CutoutReturn ==
    /\ cut_pc = "patch"
    /\ cut_left = 0
    /\ cut_pc' = "returned"
    /\ UNCHANGED <<cut_labels, cut_left, cut_cur, cut_log, cut_painted>>
    /\ UNCHANGED exceptCut

NextCut ==
    \/ CutoutGateClosed
    \/ CutoutGateOpen
    \/ StartPatch
    \/ TryPlace
    \/ CutoutReturn

SpecCut == InitCut /\ [][NextCut]_vars

(* the center of the square, normalized, is within 0.15 of the mean of the *)
(* label's corners on both axes (numerators over 32000)                    *)
NearLabel(sq, l) ==
    LET cx == 25 * (2 * sq[1] + sq[3])
        cy == 25 * (2 * sq[2] + sq[3])
        lx == 8 * (l[1] + l[3] + l[5] + l[7])
        ly == 8 * (l[2] + l[4] + l[6] + l[8])
    IN  /\ cx - lx < 4800 /\ lx - cx < 4800
        /\ cy - ly < 4800 /\ ly - cy < 4800

Filled(log) == SelectSeq(log, LAMBDA e : e.at # << >>)

(* C23: a patch is filled only where its center is not near any card's     *)
(* label center; a patch makes at most 10 attempts and, when all 10 fail,  *)
(* is skipped and fills nothing; at most 3 patches are filled.             *)
C23_CutoutAvoidsCards ==
    /\ \A k \in 1..Len(cut_painted) : \A j \in 1..Len(cut_labels) :
          ~NearLabel(cut_painted[k], cut_labels[j])
    /\ cut_cur.tries <= CUTOUT_TRIES
    /\ \A k \in 1..Len(cut_log) :
          /\ cut_log[k].tries \in 1..CUTOUT_TRIES
          /\ cut_log[k].at = << >> => cut_log[k].tries = CUTOUT_TRIES
    /\ Len(cut_painted) = Len(Filled(cut_log))
    /\ \A k \in 1..Len(cut_painted) :
          cut_painted[k] = << Filled(cut_log)[k].at[1], Filled(cut_log)[k].at[2],
                              Filled(cut_log)[k].size >>
    /\ Len(cut_painted) <= 3

(* three patches around one card: the first filled at its 10th attempt,    *)
(* the second skipped after 10 attempts, the third filled at once          *)
C23_Witness ==
    /\ cut_pc = "returned"
    /\ cut_labels = << CenterLabel >>
    /\ Len(cut_log) = 3
    /\ cut_log[1] = [size |-> 80, tries |-> 10, at |-> << 40, 40 >>]
    /\ cut_log[2] = [size |-> 20, tries |-> 10, at |-> << >>]
    /\ cut_log[3] = [size |-> 20, tries |-> 1, at |-> << 40, 40 >>]
    /\ cut_painted = << << 40, 40, 80 >>, << 40, 40, 20 >> >>

-----------------------------------------------------------------------------
(* The files one generate_image call reads, data_creator.py:1051-1076:     *)
(* the texture of generate_random_background (_load_random_texture, lines  *)
(* 236-243), the distractors of add_distractor_objects (lines 777-793) and *)
(* the cards of _place_single_card (lines 1008-1010). `llog` has one       *)
(* entry per file read, and one for a background made without a read.      *)

(* num_distractors = random.randint(1, 3), line 783 *)
NUM_DISTRACTORS == 3

(* cv2.imread(path) with the default flag returns three channels *)
TextureAsset == [readable |-> TRUE, w |-> 1024, h |-> 768, channels |-> 3]

LoadInputs ==
    [textures : { << >>, << UnreadableAsset, TextureAsset >> },
     distractors : DistractorLists,
     cards : CardLists]

InitLoad ==
    /\ lpc = "background"
    /\ lin \in LoadInputs
    /\ lleft = 0
    /\ lsel = << >>
    /\ llog = << >>
    /\ PlaceIdle
    /\ DataIdle
    /\ DetIdle
    /\ GenIdle
    /\ AugIdle
    /\ PosIdle
    /\ CutIdle
    /\ RerunIdle

(* the texture is returned whatever cv2.imread gave *)
TextureOutcome_NoFallback(asset) == "texture_background"

(* lines 241-243 and 297-299: tex is None: one of the synthetic types *)
TextureOutcome(asset) ==
    IF asset.readable THEN "texture_background" ELSE "synthetic_background"

(* generate_random_background, lines 297-313: no textures or the gate      *)
(* random.random() >= 0.4 (line 237), or one texture read                  *)
LoadBackground ==
    /\ lpc = "background"
    /\ \/ llog' = Append(llog, [kind |-> "no_texture", readable |-> TRUE,
                               outcome |-> "synthetic_background"])
       \/ \E k \in 1..Len(lin.textures) :
             llog' = Append(llog, [kind |-> "texture",
                                   readable |-> lin.textures[k].readable,
                                   outcome |-> TextureOutcome(lin.textures[k])])
    /\ lpc' = "distractors"
    /\ UNCHANGED <<lin, lleft, lsel>>
    /\ UNCHANGED exceptLoad

(* lines 777-780: no distractor files, or the gate closed *)
LoadNoDistractors ==
    /\ lpc = "distractors"
    /\ lpc' = "select"
    /\ UNCHANGED <<lin, lleft, lsel, llog>>
    /\ UNCHANGED exceptLoad

(* lines 782-783 *)
LoadDistractorLoop ==
    /\ lpc = "distractors"
    /\ lin.distractors # << >>
    /\ lleft' \in 1..NUM_DISTRACTORS
    /\ lpc' = "distractor_loop"
    /\ UNCHANGED <<lin, lsel, llog>>
    /\ UNCHANGED exceptLoad

(* one iteration of lines 787-833: random.choice, cv2.imread, continue on  *)
(* None or on a too small size, else the composite or its exception        *)
LoadDistractor ==
    /\ lpc = "distractor_loop"
    /\ lleft > 0
    /\ \E k \in 1..Len(lin.distractors), scale \in DistractorScales :
       \E step \in { DistractorStep(lin.distractors[k], scale) } :
          /\ llog' = Append(llog, [kind |-> "distractor",
                                   readable |-> lin.distractors[k].readable,
                                   outcome |-> step])
          /\ IF step \in {"ValueError", "IndexError"}
             THEN lpc' = "raised" /\ lleft' = lleft
             ELSE lpc' = lpc /\ lleft' = lleft - 1
    /\ UNCHANGED <<lin, lsel>>
    /\ UNCHANGED exceptLoad

(* lines 1059-1064 *)
LoadSelect ==
    /\ \/ lpc = "select"
       \/ lpc = "distractor_loop" /\ lleft = 0
    /\ \E n_cards \in 1..MAX_CARDS_PER_IMAGE :
          lsel' \in Samples(Len(lin.cards), Min(n_cards, Len(lin.cards)))
    /\ lpc' = "cards"
    /\ UNCHANGED <<lin, lleft, llog>>
    /\ UNCHANGED exceptLoad

(* one iteration of lines 1066-1076: _place_single_card returns at line    *)
(* 1010 when cv2.imread gave None, else calls place_card_on_bg             *)
LoadCard ==
    /\ lpc = "cards"
    /\ lsel # << >>
    /\ \E card \in { lin.cards[Head(lsel)] } :
          IF ~card.readable
          THEN /\ llog' = Append(llog, [kind |-> "card", readable |-> FALSE,
                                        outcome |-> "skipped"])
               /\ lpc' = lpc
          ELSE \E a \in GenAngles, sc \in GenScales, pos \in GenPositions :
               \E r \in { PlaceAsset(card, CardCall(card, a, sc, FALSE, pos)) } :
                  /\ llog' = Append(llog,
                        [kind |-> "card", readable |-> TRUE,
                         outcome |-> IF r.path = "IndexError" THEN r.path
                                     ELSE IF r.box = << >> THEN "rejected"
                                     ELSE "placed"])
                  /\ lpc' = IF r.path = "IndexError" THEN "raised" ELSE lpc
    /\ lsel' = Tail(lsel)
    /\ UNCHANGED <<lin, lleft>>
    /\ UNCHANGED exceptLoad

(* the card loop is over *)
LoadReturn ==
    /\ lpc = "cards"
    /\ lsel = << >>
    /\ lpc' = "returned"
    /\ UNCHANGED <<lin, lleft, lsel, llog>>
    /\ UNCHANGED exceptLoad

NextLoad ==
    \/ LoadBackground
    \/ LoadNoDistractors
    \/ LoadDistractorLoop
    \/ LoadDistractor
    \/ LoadSelect
    \/ LoadCard
    \/ LoadReturn

SpecLoad == InitLoad /\ [][NextLoad]_vars

(* a file was read in this step and did not decode *)
ReadFailed(kind) ==
    /\ Len(llog') = Len(llog) + 1
    /\ llog'[Len(llog')].kind = kind
    /\ ~llog'[Len(llog')].readable

(* C25: a file that does not decode is never the one an exception comes    *)
(* from: an undecoded texture gives a synthetic background, an undecoded   *)
(* distractor or card is skipped, and the loop it was read in goes on to   *)
(* its remaining iterations.                                               *)
C25_UndecodedAssetSkipped ==
    /\ [](\A k \in 1..Len(llog) :
              ~llog[k].readable =>
                  llog[k].outcome = (IF llog[k].kind = "texture"
                                     THEN "synthetic_background" ELSE "skipped"))
    /\ [](lpc = "raised" => llog[Len(llog)].readable)
    /\ [][ReadFailed("texture") => lpc' = "distractors"]_vars
    /\ [][ReadFailed("distractor") =>
              (lpc' = "distractor_loop" /\ lleft' = lleft - 1)]_vars
    /\ [][ReadFailed("card") => (lpc' = "cards" /\ lsel' = Tail(lsel))]_vars

(* a call that returned after an undecoded texture, an undecoded           *)
(* distractor followed by a composited one, and an undecoded card          *)
(* followed by a placed one                                                *)
C25_Witness ==
    /\ lpc = "returned"
    /\ Len(llog) = 5
    /\ llog[1] = [kind |-> "texture", readable |-> FALSE,
                  outcome |-> "synthetic_background"]
    /\ llog[2] = [kind |-> "distractor", readable |-> FALSE, outcome |-> "skipped"]
    /\ llog[3] = [kind |-> "distractor", readable |-> TRUE, outcome |-> "composited"]
    /\ llog[4] = [kind |-> "card", readable |-> FALSE, outcome |-> "skipped"]
    /\ llog[5] = [kind |-> "card", readable |-> TRUE, outcome |-> "placed"]

----------------------------------------------------------------------------
(* SpecRerun: create_dataset run twice into the same DATASET_DIR            *)
(* (data_creator.py:1206-1256), on a catalog of one card.  The runs         *)
(* followed are those that return.                                         *)

RERUN_CARDS == 1

InitRerun ==
    /\ rr_pc = "start"
    /\ rr_run = "none"
    /\ rr_train_set = {}
    /\ rr_i = 0
    /\ rr_empty_count = 0
    /\ rr_disk = {}
    /\ rr_written = {}
    /\ PlaceIdle
    /\ DataIdle
    /\ DetIdle
    /\ GenIdle
    /\ AugIdle
    /\ PosIdle
    /\ CutIdle
    /\ LoadIdle

(* lines 1206-1222: os.makedirs(..., exist_ok=True) keeps whatever the     *)
(* folders hold; a fresh shuffle, a fresh train_set, empty_count = 0       *)
RerunCreateDataset ==
    /\ \/ rr_pc = "start" /\ rr_run = "none" /\ rr_run' = "earlier"
       \/ rr_pc = "returned" /\ rr_run = "earlier" /\ rr_run' = "latest"
    /\ \E k \in 0..MaxShuffle :
          LET total == TotalImages(RERUN_CARDS)
          IN  rr_train_set' = TrainSetOf(Shuffled(total, k), TrainCount(total))
    /\ rr_i' = 0
    /\ rr_empty_count' = 0
    /\ rr_written' = {}
    /\ rr_pc' = "loop"
    /\ UNCHANGED rr_disk
    /\ UNCHANGED exceptRerun

(* lines 1224-1234: generate_image returns no label, the sample is skipped *)
(* and nothing under DATASET_DIR is touched                                *)
RerunSkipEmpty ==
    /\ rr_pc = "loop"
    /\ rr_i < TotalImages(RERUN_CARDS)
    /\ rr_empty_count < MaxEmpty
    /\ rr_empty_count' = rr_empty_count + 1
    /\ rr_i' = rr_i + 1
    /\ UNCHANGED <<rr_pc, rr_run, rr_train_set, rr_disk, rr_written>>
    /\ UNCHANGED exceptRerun

(* lines 1224-1242: the image and the label file written under the         *)
(* index's split of this run, over a file of the same name if there is one *)
RerunWriteSample ==
    /\ rr_pc = "loop"
    /\ rr_i < TotalImages(RERUN_CARDS)
    /\ LET split == SplitOf(rr_i, rr_train_set)
           both == {ImagePath(split, rr_i), LabelPath(split, rr_i)}
       IN  /\ rr_disk' = rr_disk \cup both
           /\ rr_written' = rr_written \cup both
    /\ rr_i' = rr_i + 1
    /\ UNCHANGED <<rr_pc, rr_run, rr_train_set, rr_empty_count>>
    /\ UNCHANGED exceptRerun

(* lines 1244-1259: the loop is over, data.yaml is rewritten *)
RerunReturn ==
    /\ rr_pc = "loop"
    /\ rr_i = TotalImages(RERUN_CARDS)
    /\ rr_pc' = "returned"
    /\ UNCHANGED <<rr_run, rr_train_set, rr_i, rr_empty_count, rr_disk, rr_written>>
    /\ UNCHANGED exceptRerun

NextRerun ==
    \/ RerunCreateDataset
    \/ RerunSkipEmpty
    \/ RerunWriteSample
    \/ RerunReturn

SpecRerun == InitRerun /\ [][NextRerun]_vars

----------------------------------------------------------------------------
(* Claims checked under SpecRerun *)

(* C30: after any sequence of create_dataset runs into the same directory, *)
(* no sample index has files under both train/ and val/, and every file    *)
(* under a split was written by the latest run.                            *)
C30_NoStaleFiles ==
    rr_pc = "returned" =>
        /\ \A f \in rr_disk : \A g \in rr_disk :
              f[3] = g[3] => f[1] = g[1]
        /\ rr_disk \subseteq rr_written

====
